---------------------------- MODULE ReadersProofs ----------------------------
(***************************************************************************)
(* The readers are exact on every input: SgxQuote::read and the peek       *)
(* helpers for all declared lengths, the visitor of signed documents for   *)
(* all objects, the change record scan for all descriptions, and the       *)
(* bracket scans for all collaterals and cuts.                             *)
(***************************************************************************)
EXTENDS Readers, TLAPS, FiniteSetTheorems, SequenceTheorems, WellFoundedInduction


(* Where the layout has a field of the quote at s. *)
Place(b, s, f) ==
  CASE f = "version" -> s [] f = "att_key_type" -> s + 2 [] f = "reserved" -> s + 4
    [] f = "qe_svn" -> s + 8 [] f = "pce_svn" -> s + 10 [] f = "qe_vendor_id" -> s + 12
    [] f = "user_data" -> s + 28 [] f = "report_body" -> s + 48 [] f = "sig_len" -> s + 432
    [] f = "signature" -> s + 436 [] f = "isv_signature" -> s + 436
    [] f = "attestation_pub_key" -> s + 500 [] f = "qe_report" -> s + 564
    [] f = "qe_report_signature" -> s + 948 [] f = "auth_len" -> s + 1012
    [] f = "qe_auth_data" -> s + 1014
    [] f = "cert_data_type" -> s + 1014 + AuthLen(b, s)
    [] f = "cert_len" -> s + 1016 + AuthLen(b, s)
    [] f = "cert_data" -> s + 1020 + AuthLen(b, s)
    [] OTHER -> s + 1020 + AuthLen(b, s) + CertLen(b, s)

Rank ==
  [version |-> 1, att_key_type |-> 2, reserved |-> 3, qe_svn |-> 4, pce_svn |-> 5,
   qe_vendor_id |-> 6, user_data |-> 7, report_body |-> 8, sig_len |-> 9, signature |-> 10,
   isv_signature |-> 11, attestation_pub_key |-> 12, qe_report |-> 13,
   qe_report_signature |-> 14, auth_len |-> 15, qe_auth_data |-> 16, cert_data_type |-> 17,
   cert_len |-> 18, cert_data |-> 19, end |-> 20]

Reading == Field \cup {"end"}

(* What is known while the reader is at pc: it stands where the layout has *)
(* the field, what it has passed lies where the layout has it and is       *)
(* supported, and the current reader ends with the buffer or the section.  *)
Progress ==
  /\ cursor = start
  /\ pos = Place(buffer, start, pc)
  /\ \A f \in Field : Rank[f] < Rank[pc] => at[f] = Place(buffer, start, f)
  /\ Rank[pc] <= 10 => end = Len(buffer)
  /\ Rank[pc] > 10 => start + 436 <= Len(buffer) /\ end = start + 436 + SectionLen(buffer, start)
  /\ Rank[pc] > 1 => U16(buffer, start) = 3
  /\ Rank[pc] > 2 => U16(buffer, start + 2) = 2
  /\ Rank[pc] > 17 => CertType(buffer, start) = 5

ParseInv == TypeOK /\ (pc \in Reading => Progress) /\ ReadExact /\ PeekAgrees

-----------------------------------------------------------------------------
(* Numbers of two and four bytes that lie in the buffer are numbers. *)
LEMMA Numbers ==
  ASSUME NEW b \in Seq(Byte), NEW p \in Nat
  PROVE  /\ p + 2 <= Len(b) => U16(b, p) \in Nat
         /\ p + 4 <= Len(b) => U32(b, p) \in Nat
<1>1. ASSUME NEW i \in 1..Len(b) PROVE b[i] \in Nat
  <2>1. b[i] \in Byte
    OBVIOUS
  <2> QED
    BY <2>1 DEF Byte
<1>2. ASSUME NEW q \in Nat, q + 2 <= Len(b) PROVE U16(b, q) \in Nat
  <2>1. q + 1 \in 1..Len(b) /\ q + 2 \in 1..Len(b)
    BY <1>2
  <2>2. b[q + 1] \in Nat /\ b[q + 2] \in Nat
    BY <1>1, <2>1
  <2> QED
    BY <2>2 DEF U16
<1>3. ASSUME p + 4 <= Len(b) PROVE U32(b, p) \in Nat
  <2>1. U16(b, p) \in Nat /\ U16(b, p + 2) \in Nat
    BY <1>2, <1>3
  <2> QED
    BY <2>1 DEF U32
<1>4. p + 2 <= Len(b) => U16(b, p) \in Nat
  BY <1>2
<1> QED
  BY <1>3, <1>4

(* The buffer is a sequence of bytes. *)
LEMMA BufferType ==
  ASSUME TypeOK
  PROVE  buffer \in Seq(Byte) /\ Len(buffer) \in Nat /\ start \in Nat /\ pos \in Int /\ end \in Nat
  BY BuffersAssumption DEF TypeOK

(* The names of the fields, and the three tables about them. *)
LEMMA FieldNames ==
  Field = {"version", "att_key_type", "reserved", "qe_svn", "pce_svn", "qe_vendor_id",
           "user_data", "report_body", "sig_len", "signature", "isv_signature",
           "attestation_pub_key", "qe_report", "qe_report_signature", "auth_len",
           "qe_auth_data", "cert_data_type", "cert_len", "cert_data"}
  BY DEF Field, FixedField, Width

(* The rank of each field. *)
LEMMA Ranks ==
  /\ Rank["version"] = 1 /\ Rank["att_key_type"] = 2 /\ Rank["reserved"] = 3
  /\ Rank["qe_svn"] = 4 /\ Rank["pce_svn"] = 5 /\ Rank["qe_vendor_id"] = 6
  /\ Rank["user_data"] = 7 /\ Rank["report_body"] = 8 /\ Rank["sig_len"] = 9
  /\ Rank["signature"] = 10 /\ Rank["isv_signature"] = 11
  /\ Rank["attestation_pub_key"] = 12 /\ Rank["qe_report"] = 13
  /\ Rank["qe_report_signature"] = 14 /\ Rank["auth_len"] = 15 /\ Rank["qe_auth_data"] = 16
  /\ Rank["cert_data_type"] = 17 /\ Rank["cert_len"] = 18 /\ Rank["cert_data"] = 19
  /\ Rank["end"] = 20
  BY DEF Rank

(* The width of each fixed field. *)
LEMMA Widths ==
  /\ Width["version"] = 2 /\ Width["att_key_type"] = 2 /\ Width["reserved"] = 4
  /\ Width["qe_svn"] = 2 /\ Width["pce_svn"] = 2 /\ Width["qe_vendor_id"] = 16
  /\ Width["user_data"] = 20 /\ Width["report_body"] = 384 /\ Width["sig_len"] = 4
  /\ Width["isv_signature"] = 64 /\ Width["attestation_pub_key"] = 64
  /\ Width["qe_report"] = 384 /\ Width["qe_report_signature"] = 64 /\ Width["auth_len"] = 2
  /\ Width["cert_data_type"] = 2 /\ Width["cert_len"] = 4
  BY DEF Width

(* The place of each field. *)
LEMMA Places ==
  ASSUME NEW b, NEW s
  PROVE
    /\ Place(b, s, "version") = s
    /\ Place(b, s, "att_key_type") = s + 2
    /\ Place(b, s, "reserved") = s + 4
    /\ Place(b, s, "qe_svn") = s + 8
    /\ Place(b, s, "pce_svn") = s + 10
    /\ Place(b, s, "qe_vendor_id") = s + 12
    /\ Place(b, s, "user_data") = s + 28
    /\ Place(b, s, "report_body") = s + 48
    /\ Place(b, s, "sig_len") = s + 432
    /\ Place(b, s, "signature") = s + 436
    /\ Place(b, s, "isv_signature") = s + 436
    /\ Place(b, s, "attestation_pub_key") = s + 500
    /\ Place(b, s, "qe_report") = s + 564
    /\ Place(b, s, "qe_report_signature") = s + 948
    /\ Place(b, s, "auth_len") = s + 1012
    /\ Place(b, s, "qe_auth_data") = s + 1014
    /\ Place(b, s, "cert_data_type") = s + 1014 + AuthLen(b, s)
    /\ Place(b, s, "cert_len") = s + 1016 + AuthLen(b, s)
    /\ Place(b, s, "cert_data") = s + 1020 + AuthLen(b, s)
    /\ Place(b, s, "end") = s + 1020 + AuthLen(b, s) + CertLen(b, s)
  BY DEF Place

(* The fields come in the order of their ranks. *)
LEMMA Order ==
  ASSUME NEW f \in DOMAIN Following
  PROVE  /\ f \in Field /\ f # "signature" /\ Following[f] \in Reading
         /\ Rank[Following[f]] = Rank[f] + 1
         /\ \A g \in Field : Rank[g] < Rank[f] + 1 => Rank[g] < Rank[f] \/ g = f
         /\ (Rank[f] <= 10) = (Rank[Following[f]] <= 10)
  BY DEF Following, Field, FixedField, Width, Reading, Rank

(* What the length fields hold, once they are known to be in the buffer.   *)
LEMMA Lengths ==
  ASSUME TypeOK, start + 436 <= Len(buffer)
  PROVE  /\ SectionLen(buffer, start) \in Nat
         /\ start + 1014 <= Len(buffer) => AuthLen(buffer, start) \in Nat
         /\ start + 1014 <= Len(buffer) /\ start + 1020 + AuthLen(buffer, start) <= Len(buffer)
              => CertLen(buffer, start) \in Nat
<1>1. buffer \in Seq(Byte) /\ Len(buffer) \in Nat /\ start \in Nat
  BY BufferType
<1>2. SectionLen(buffer, start) \in Nat
  BY <1>1, Numbers DEF SectionLen
<1>3. ASSUME start + 1014 <= Len(buffer)
      PROVE  AuthLen(buffer, start) \in Nat
  BY <1>1, <1>3, Numbers DEF AuthLen
<1>4. ASSUME start + 1014 <= Len(buffer), start + 1020 + AuthLen(buffer, start) <= Len(buffer)
      PROVE  CertLen(buffer, start) \in Nat
  <2>1. start + 1016 + AuthLen(buffer, start) \in Nat
    BY <1>1, <1>3, <1>4
  <2>2. start + 1016 + AuthLen(buffer, start) + 4 <= Len(buffer)
    BY <1>1, <1>3, <1>4
  <2> QED
    BY <1>1, <2>1, <2>2, Numbers DEF CertLen
<1> QED
  BY <1>2, <1>3, <1>4

(* What the fields passed so far say of the place of the next: the length  *)
(* fields lie where the layout has them, inside the buffer.                *)
LEMMA Passed ==
  ASSUME TypeOK, Progress, pc \in Reading
  PROVE  /\ Rank[pc] > 9 => at["sig_len"] = start + 432 /\ start + 436 <= Len(buffer)
         /\ Rank[pc] > 15 => at["auth_len"] = start + 1012 /\ start + 1014 <= Len(buffer)
         /\ Rank[pc] > 18 => at["cert_len"] = start + 1016 + AuthLen(buffer, start)
         /\ Rank[pc] \in Nat
<1>1. /\ Len(buffer) \in Nat /\ start \in Nat /\ pos \in Int /\ end \in Nat
      /\ pos <= end /\ end <= Len(buffer)
  BY BufferType DEF TypeOK
<1>2. Rank[pc] \in Nat
  BY FieldNames, Ranks DEF Reading
<1>3. /\ {"sig_len", "auth_len", "cert_len", "signature", "qe_auth_data"} \subseteq Field
      /\ Rank["sig_len"] = 9 /\ Rank["auth_len"] = 15 /\ Rank["cert_len"] = 18
      /\ Rank["qe_auth_data"] = 16 /\ Rank["signature"] = 10
  BY FieldNames, Ranks
<1>4. \A f \in Field : Rank[f] < Rank[pc] => at[f] = Place(buffer, start, f)
  BY DEF Progress
<1>5. Rank[pc] > 9 => at["sig_len"] = start + 432
  BY <1>2, <1>3, <1>4, Places
<1>6. Rank[pc] > 15 => at["auth_len"] = start + 1012
  BY <1>2, <1>3, <1>4, Places
<1>7. Rank[pc] > 18 => at["cert_len"] = start + 1016 + AuthLen(buffer, start)
  BY <1>2, <1>3, <1>4, Places
<1>8. Rank[pc] > 9 => start + 436 <= Len(buffer)
  <2>1. CASE Rank[pc] = 10
    <3>1. pc = "signature"
      BY <2>1, FieldNames, Ranks DEF Reading
    <3>2. pos = start + 436
      BY <3>1, Places DEF Progress
    <3> QED
      BY <1>1, <3>2
  <2>2. CASE Rank[pc] > 10
    BY <2>2 DEF Progress
  <2> QED
    BY <1>2, <2>1, <2>2
<1>9. Rank[pc] > 15 => start + 1014 <= Len(buffer)
  <2>1. CASE Rank[pc] = 16
    <3>1. pc = "qe_auth_data"
      BY <2>1, FieldNames, Ranks DEF Reading
    <3>2. pos = start + 1014
      BY <3>1, Places DEF Progress
    <3> QED
      BY <1>1, <3>2
  <2>2. CASE Rank[pc] > 16
    <3>1. at["qe_auth_data"] = start + 1014
      BY <1>3, <1>4, <2>2, Places
    <3>2. at["qe_auth_data"] \in 0..Len(buffer)
      BY <1>3 DEF TypeOK
    <3> QED
      BY <1>1, <3>1, <3>2
  <2> QED
    BY <1>2, <2>1, <2>2
<1> QED
  BY <1>2, <1>5, <1>6, <1>7, <1>8, <1>9

(* How long the field is the reader is at, in terms of the layout.         *)
LEMMA FieldLength ==
  ASSUME TypeOK, Progress, pc \in Field
  PROVE  /\ pc = "signature" => Length(pc) = SectionLen(buffer, start)
         /\ pc = "qe_auth_data" => Length(pc) = AuthLen(buffer, start)
         /\ pc = "cert_data" => Length(pc) = CertLen(buffer, start)
         /\ pc \notin {"signature", "qe_auth_data", "cert_data"} => Length(pc) = Width[pc]
<1>1. pc = "signature" => Length(pc) = SectionLen(buffer, start)
  BY Passed, Ranks DEF Length, SectionLen, Reading
<1>2. pc = "qe_auth_data" => Length(pc) = AuthLen(buffer, start)
  BY Passed, Ranks DEF Length, AuthLen, Reading
<1>3. pc = "cert_data" => Length(pc) = CertLen(buffer, start)
  BY Passed, Ranks DEF Length, CertLen, Reading
<1>4. pc \notin {"signature", "qe_auth_data", "cert_data"} => Length(pc) = Width[pc]
  BY DEF Length
<1> QED
  BY <1>1, <1>2, <1>3, <1>4

(* The lengths a read at pc involves are numbers.                          *)
LEMMA LengthType ==
  ASSUME TypeOK, Progress, pc \in Reading
  PROVE  /\ pc \in Field => Length(pc) \in Nat
         /\ Rank[pc] > 9 => SectionLen(buffer, start) \in Nat
         /\ Rank[pc] > 15 => AuthLen(buffer, start) \in Nat
         /\ Rank[pc] > 18 => CertLen(buffer, start) \in Nat
<1>1. /\ Len(buffer) \in Nat /\ start \in Nat /\ pos \in Int /\ end \in Nat
      /\ pos <= end /\ end <= Len(buffer) /\ Rank[pc] \in Nat
  BY BufferType, Passed DEF TypeOK
<1>2. Rank[pc] > 9 => SectionLen(buffer, start) \in Nat
  BY Passed, Lengths
<1>3. Rank[pc] > 15 => AuthLen(buffer, start) \in Nat
  BY <1>1, Passed, Lengths
<1>4. Rank[pc] > 18 => CertLen(buffer, start) \in Nat
  <2>1. ASSUME Rank[pc] > 18 PROVE start + 1020 + AuthLen(buffer, start) <= Len(buffer)
    <3>1. CASE pc = "cert_data"
      <4>1. pos = start + 1020 + AuthLen(buffer, start)
        BY <3>1, Places DEF Progress
      <4> QED
        BY <1>1, <4>1
    <3>2. CASE pc = "end"
      <4>1. at["cert_data"] = start + 1020 + AuthLen(buffer, start)
        <5>1. "cert_data" \in Field /\ Rank["cert_data"] < Rank[pc]
          BY <3>2, FieldNames, Ranks
        <5>2. at["cert_data"] = Place(buffer, start, "cert_data")
          BY <5>1 DEF Progress
        <5> QED
          BY <5>2, Places
      <4>2. at["cert_data"] \in 0..Len(buffer)
        BY FieldNames DEF TypeOK
      <4> QED
        BY <1>1, <4>1, <4>2
    <3> QED
      BY <2>1, <3>1, <3>2, FieldNames, Ranks DEF Reading
  <2> QED
    BY <1>1, <2>1, Passed, Lengths
<1>5. pc \in Field => Length(pc) \in Nat
  BY <1>2, <1>3, <1>4, FieldLength, FieldNames, Ranks, Widths DEF Reading
<1> QED
  BY <1>2, <1>3, <1>4, <1>5

(* The field that follows each. *)
LEMMA Followers ==
  /\ DOMAIN Following = Field \ {"signature"}
  /\ Following["version"] = "att_key_type" /\ Following["att_key_type"] = "reserved"
  /\ Following["reserved"] = "qe_svn" /\ Following["qe_svn"] = "pce_svn"
  /\ Following["pce_svn"] = "qe_vendor_id" /\ Following["qe_vendor_id"] = "user_data"
  /\ Following["user_data"] = "report_body" /\ Following["report_body"] = "sig_len"
  /\ Following["sig_len"] = "signature" /\ Following["isv_signature"] = "attestation_pub_key"
  /\ Following["attestation_pub_key"] = "qe_report"
  /\ Following["qe_report"] = "qe_report_signature"
  /\ Following["qe_report_signature"] = "auth_len" /\ Following["auth_len"] = "qe_auth_data"
  /\ Following["qe_auth_data"] = "cert_data_type" /\ Following["cert_data_type"] = "cert_len"
  /\ Following["cert_len"] = "cert_data" /\ Following["cert_data"] = "end"
<1>1. DOMAIN Following = Field \ {"signature"}
  BY FieldNames DEF Following
<1>2. /\ Following["version"] = "att_key_type" /\ Following["att_key_type"] = "reserved"
      /\ Following["reserved"] = "qe_svn" /\ Following["qe_svn"] = "pce_svn"
      /\ Following["pce_svn"] = "qe_vendor_id" /\ Following["qe_vendor_id"] = "user_data"
      /\ Following["user_data"] = "report_body" /\ Following["report_body"] = "sig_len"
      /\ Following["sig_len"] = "signature" /\ Following["isv_signature"] = "attestation_pub_key"
  BY DEF Following
<1>3. /\ Following["attestation_pub_key"] = "qe_report"
      /\ Following["qe_report"] = "qe_report_signature"
      /\ Following["qe_report_signature"] = "auth_len" /\ Following["auth_len"] = "qe_auth_data"
      /\ Following["qe_auth_data"] = "cert_data_type" /\ Following["cert_data_type"] = "cert_len"
      /\ Following["cert_len"] = "cert_data" /\ Following["cert_data"] = "end"
  BY DEF Following
<1> QED
  BY <1>1, <1>2, <1>3

(* A read of a field takes the reader to the place of the next one.        *)
LEMMA NextPlace ==
  ASSUME TypeOK, Progress, pc \in DOMAIN Following
  PROVE  Place(buffer, start, Following[pc]) = pos + Length(pc)
<1>1. pc \in Field /\ pc # "signature" /\ start \in Nat
  BY Followers, BufferType
<1>2. pos = Place(buffer, start, pc)
  BY DEF Progress
<1>3. Rank[pc] > 15 => AuthLen(buffer, start) \in Nat
  BY <1>1, LengthType DEF Reading
<1>4. Rank[pc] > 18 => CertLen(buffer, start) \in Nat
  BY <1>1, LengthType DEF Reading
<1>5. CASE pc \in {"version", "att_key_type", "reserved", "qe_svn", "pce_svn", "qe_vendor_id"}
  BY <1>1, <1>2, <1>5, FieldLength, Widths, Places, Followers
<1>6. CASE pc \in {"user_data", "report_body", "sig_len", "isv_signature",
                   "attestation_pub_key", "qe_report", "qe_report_signature", "auth_len"}
  BY <1>1, <1>2, <1>6, FieldLength, Widths, Places, Followers
<1>7. CASE pc \in {"qe_auth_data", "cert_data_type", "cert_len"}
  BY <1>1, <1>2, <1>3, <1>7, FieldLength, Widths, Places, Followers, Ranks
<1>8. CASE pc = "cert_data"
  BY <1>1, <1>2, <1>3, <1>4, <1>8, FieldLength, Places, Followers, Ranks
<1> QED
  BY <1>1, <1>5, <1>6, <1>7, <1>8, FieldNames

(* In a well-formed quote every field fits and has a supported value.      *)
LEMMA Fits ==
  ASSUME TypeOK, Progress, pc \in Field, WellFormed(buffer, start)
  PROVE  Length(pc) <= end - pos /\ Supported(pc)
<1> DEFINE S == SectionLen(buffer, start)
           A == AuthLen(buffer, start)
           C == CertLen(buffer, start)
<1>1. /\ Len(buffer) \in Nat /\ start \in Nat /\ S \in Int
      /\ start + 436 + S <= Len(buffer) /\ S >= 584 /\ 584 + A <= S /\ C = S - 584 - A
  BY BufferType DEF WellFormed
<1>2. A \in Nat /\ C \in Nat
  <2>1. A \in Nat
    BY <1>1, Lengths
  <2>2. C \in Int /\ C >= 0
    BY <1>1, <2>1
  <2> QED
    BY <2>1, <2>2
<1>3. pos = Place(buffer, start, pc)
  BY DEF Progress
<1>4. (Rank[pc] <= 10 => end = Len(buffer)) /\ (Rank[pc] > 10 => end = start + 436 + S)
  BY DEF Progress
<1>5. Length(pc) <= end - pos
  <2> HIDE DEF S, A, C
  <2>1. CASE pc \in {"version", "att_key_type", "reserved", "qe_svn", "pce_svn", "qe_vendor_id",
                     "user_data", "report_body", "sig_len"}
    <3>1. Rank[pc] <= 10
      BY <2>1, Ranks
    <3>2. pos + Length(pc) <= start + 436 /\ pos \in Int /\ Length(pc) \in Int
      <4>1. pos + Length(pc) = Place(buffer, start, Following[pc])
        BY <2>1, NextPlace, Followers
      <4>2. Following[pc] \in {"att_key_type", "reserved", "qe_svn", "pce_svn", "qe_vendor_id",
                                   "user_data", "report_body", "sig_len", "signature"}
        BY <2>1, Followers
      <4>3. ASSUME NEW g \in {"att_key_type", "reserved", "qe_svn", "pce_svn", "qe_vendor_id",
                                    "user_data", "report_body", "sig_len", "signature"}
            PROVE  Place(buffer, start, g) <= start + 436
        <5>1. \/ Place(buffer, start, g) = start + 2
              \/ Place(buffer, start, g) = start + 4
              \/ Place(buffer, start, g) = start + 8
              \/ Place(buffer, start, g) = start + 10
              \/ Place(buffer, start, g) = start + 12
              \/ Place(buffer, start, g) = start + 28
              \/ Place(buffer, start, g) = start + 48
              \/ Place(buffer, start, g) = start + 432
              \/ Place(buffer, start, g) = start + 436
          BY Places
        <5> QED
          BY <1>1, <5>1
      <4>4. pos \in Int /\ Length(pc) \in Int
        BY BufferType, LengthType DEF Reading
      <4> QED
        BY <4>1, <4>2, <4>3, <4>4
    <3> QED
      BY <1>1, <1>4, <3>1, <3>2
  <2>2. CASE pc = "signature"
    <3>1. Length(pc) = S /\ pos = start + 436 /\ end = Len(buffer)
      BY <1>3, <1>4, <2>2, FieldLength, Places, Ranks DEF S
    <3> QED
      BY <1>1, <3>1
  <2>3. CASE pc \in {"isv_signature", "attestation_pub_key", "qe_report", "qe_report_signature",
                     "auth_len"}
    <3>1. Rank[pc] > 10
      BY <2>3, Ranks
    <3>2. pos + Length(pc) <= start + 1014 /\ pos \in Int /\ Length(pc) \in Int
      <4>1. pos + Length(pc) = Place(buffer, start, Following[pc])
        BY <2>3, NextPlace, Followers
      <4>2. Following[pc] \in {"attestation_pub_key", "qe_report", "qe_report_signature",
                                   "auth_len", "qe_auth_data"}
        BY <2>3, Followers
      <4>3. ASSUME NEW g \in {"attestation_pub_key", "qe_report", "qe_report_signature",
                                    "auth_len", "qe_auth_data"}
            PROVE  Place(buffer, start, g) <= start + 1014
        <5>1. \/ Place(buffer, start, g) = start + 500
              \/ Place(buffer, start, g) = start + 564
              \/ Place(buffer, start, g) = start + 948
              \/ Place(buffer, start, g) = start + 1012
              \/ Place(buffer, start, g) = start + 1014
          BY Places
        <5> QED
          BY <1>1, <5>1
      <4>4. pos \in Int /\ Length(pc) \in Int
        BY BufferType, LengthType DEF Reading
      <4> QED
        BY <4>1, <4>2, <4>3, <4>4
    <3> QED
      BY <1>1, <1>2, <1>4, <3>1, <3>2
  <2>4. CASE pc = "qe_auth_data"
    <3>1. Length(pc) = A /\ pos = start + 1014 /\ end = start + 436 + S
      BY <1>3, <1>4, <2>4, FieldLength, Places, Ranks DEF A
    <3> QED
      BY <1>1, <1>2, <3>1
  <2>5. CASE pc = "cert_data_type"
    <3>1. Length(pc) = 2 /\ pos = start + 1014 + A /\ end = start + 436 + S
      BY <1>3, <1>4, <2>5, FieldLength, Widths, Places, Ranks DEF A
    <3> QED
      BY <1>1, <1>2, <3>1
  <2>6. CASE pc = "cert_len"
    <3>1. Length(pc) = 4 /\ pos = start + 1016 + A /\ end = start + 436 + S
      BY <1>3, <1>4, <2>6, FieldLength, Widths, Places, Ranks DEF A
    <3> QED
      BY <1>1, <1>2, <3>1
  <2>7. CASE pc = "cert_data"
    <3>1. Length(pc) = C /\ pos = start + 1020 + A /\ end = start + 436 + S
      BY <1>3, <1>4, <2>7, FieldLength, Places, Ranks DEF A, C
    <3> QED
      BY <1>1, <1>2, <3>1
  <2> QED
    BY <2>1, <2>2, <2>3, <2>4, <2>5, <2>6, <2>7, FieldNames
<1>6. Supported(pc)
  <2>1. pc = "version" => U16(buffer, pos) = 3
    BY <1>3, Places DEF WellFormed
  <2>2. pc = "att_key_type" => U16(buffer, pos) = 2
    BY <1>3, Places DEF WellFormed
  <2>3. pc = "cert_data_type" => U16(buffer, pos) = 5
    BY <1>3, Places DEF WellFormed, CertType
  <2> QED
    BY <2>1, <2>2, <2>3 DEF Supported
<1> QED
  BY <1>5, <1>6

(* A rejected read found no quote at the cursor. *)
LEMMA FailPreserves ==
  ASSUME TypeOK, Progress, pc \in Reading, ~WellFormed(buffer, start), Fail
  PROVE  ParseInv'
<1>1. pc' = "returned" /\ outcome' = "rejected"
      /\ UNCHANGED <<buffer, cursor, start, pos, end, at>>
  BY DEF Fail
<1>2. TypeOK'
  BY <1>1 DEF TypeOK
<1>3. pc' \notin Reading
  BY <1>1, FieldNames DEF Reading
<1>4. ReadExact'
  BY <1>1 DEF ReadExact, Progress, WellFormed, SectionLen, AuthLen, CertType, CertLen, U16, U32
<1>5. PeekAgrees'
  BY <1>1 DEF PeekAgrees
<1> QED
  BY <1>2, <1>3, <1>4, <1>5 DEF ParseInv

(* While the reader is under way nothing is claimed of the answer.         *)
LEMMA Unanswered ==
  ASSUME TypeOK', pc' # "returned", pc' \in Reading => Progress'
  PROVE  ParseInv'
  BY DEF ParseInv, ReadExact, PeekAgrees

(* A call starts at the first field. *)
LEMMA CallPreserves ==
  ASSUME ParseInv, Call
  PROVE  ParseInv'
<1>1. /\ pc = "idle" /\ pc' = "version" /\ start' = cursor /\ pos' = cursor
      /\ end' = Len(buffer) /\ at' = [f \in Field |-> 0]
      /\ UNCHANGED <<buffer, cursor, outcome>>
  BY DEF Call
<1>2. TypeOK /\ Len(buffer) \in Nat /\ start \in Nat /\ cursor \in start..Len(buffer)
  BY BufferType DEF ParseInv, TypeOK
<1>3. TypeOK'
  <2>1. at' \in [Field -> 0..Len(buffer)]
    BY <1>1, <1>2
  <2>2. cursor \in 0..Len(buffer)
    BY <1>2
  <2>3. pc' \in Field
    BY <1>1, FieldNames
  <2>4. outcome = "none"
    BY <1>1, <1>2 DEF TypeOK
  <2> QED
    BY <1>1, <1>2, <2>1, <2>2, <2>3, <2>4 DEF TypeOK
<1>4. Progress'
  <2>1. Rank[pc'] = 1
    BY <1>1, Ranks
  <2>2. \A f \in Field : ~(Rank[f] < 1)
    BY FieldNames, Ranks
  <2>3. pos' = Place(buffer', start', pc')
    BY <1>1, Places
  <2> QED
    BY <1>1, <2>1, <2>2, <2>3 DEF Progress
<1> QED
  BY <1>1, <1>3, <1>4, Unanswered

(* What a successful read adds to what is known. *)
LEMMA ReadAdvances ==
  ASSUME TypeOK, Progress, pc \in DOMAIN Following, Length(pc) <= end - pos, Supported(pc),
         at' = [at EXCEPT ![pc] = pos], pos' = pos + Length(pc), pc' = Following[pc],
         UNCHANGED <<buffer, cursor, start, end, outcome>>
  PROVE  TypeOK' /\ Progress'
<1>1. /\ pc \in Field /\ pc # "signature" /\ Following[pc] \in Reading
      /\ Rank[pc'] = Rank[pc] + 1
      /\ \A g \in Field : Rank[g] < Rank[pc] + 1 => Rank[g] < Rank[pc] \/ g = pc
      /\ (Rank[pc] <= 10) = (Rank[pc'] <= 10)
  BY Order
<1>2. Rank[pc] \in Nat /\ Len(buffer) \in Nat /\ start \in Nat /\ pos \in Nat /\ end \in Nat
      /\ Length(pc) \in Nat /\ pos <= end /\ end <= Len(buffer)
  BY <1>1, BufferType, Passed, LengthType DEF Reading, TypeOK
<1>3. TypeOK'
  <2>1. at' \in [Field -> 0..Len(buffer)]
    <3>1. pos \in 0..Len(buffer) /\ at \in [Field -> 0..Len(buffer)]
      BY <1>2 DEF TypeOK
    <3> QED
      BY <3>1
  <2>2. pos + Length(pc) \in 0..end
    BY <1>2
  <2>3. pc' \in Field \cup {"end"} /\ pc' # "returned" /\ outcome = "none"
    BY <1>1, FieldNames DEF Reading, TypeOK
  <2> QED
    BY <2>1, <2>2, <2>3 DEF TypeOK
<1>4. Progress'
  <2>1. cursor' = start'
    BY DEF Progress
  <2>2. pos' = Place(buffer', start', pc')
    BY NextPlace
  <2>3. \A g \in Field : Rank[g] < Rank[pc'] => at'[g] = Place(buffer', start', g)
    <3>1. pos = Place(buffer, start, pc)
          /\ \A g \in Field : Rank[g] < Rank[pc] => at[g] = Place(buffer, start, g)
      BY DEF Progress
    <3>2. at \in [Field -> 0..Len(buffer)]
      BY DEF TypeOK
    <3>3. ASSUME NEW g \in Field, Rank[g] < Rank[pc']
          PROVE  at'[g] = Place(buffer, start, g)
      <4>1. CASE g = pc
        BY <1>1, <3>1, <3>2, <4>1
      <4>2. CASE g # pc
        BY <1>1, <3>1, <3>2, <3>3, <4>2
      <4> QED
        BY <4>1, <4>2
    <3> QED
      BY <3>3
  <2>4. Rank[pc'] <= 10 => end' = Len(buffer')
    BY <1>1 DEF Progress
  <2>5. Rank[pc'] > 10 => start' + 436 <= Len(buffer')
                          /\ end' = start' + 436 + SectionLen(buffer', start')
    BY <1>1, <1>2 DEF Progress
  <2>6. Rank[pc'] > 1 => U16(buffer', start') = 3
    <3>1. CASE Rank[pc] > 1
      BY <3>1 DEF Progress
    <3>2. CASE Rank[pc] = 1
      <4>1. pc = "version"
        BY <1>1, <3>2, FieldNames, Ranks
      <4> QED
        BY <4>1, Places DEF Supported, Progress
    <3> QED
      BY <1>1, <1>2, <3>1, <3>2
  <2>7. Rank[pc'] > 2 => U16(buffer', start' + 2) = 2
    <3>1. CASE Rank[pc] > 2
      BY <3>1 DEF Progress
    <3>2. CASE Rank[pc] = 2
      <4>1. pc = "att_key_type"
        BY <1>1, <3>2, FieldNames, Ranks
      <4> QED
        BY <4>1, Places DEF Supported, Progress
    <3> QED
      BY <1>1, <1>2, <3>1, <3>2
  <2>8. Rank[pc'] > 17 => CertType(buffer', start') = 5
    <3>1. CASE Rank[pc] > 17
      BY <3>1 DEF Progress
    <3>2. CASE Rank[pc] = 17
      <4>1. pc = "cert_data_type"
        BY <1>1, <3>2, FieldNames, Ranks
      <4> QED
        BY <4>1, Places DEF Supported, Progress, CertType
    <3> QED
      BY <1>1, <1>2, <3>1, <3>2
  <2> QED
    BY <2>1, <2>2, <2>3, <2>4, <2>5, <2>6, <2>7, <2>8 DEF Progress
<1> QED
  BY <1>3, <1>4

(* A read of any field but the section keeps what is known. *)
LEMMA ReadPreserves ==
  ASSUME ParseInv, Read
  PROVE  ParseInv'
<1>1. pc \in DOMAIN Following /\ pc \in Field /\ pc \in Reading /\ Following[pc] \in Reading
  BY Followers, Order DEF Read, Reading
<1>2. TypeOK /\ Progress
  BY <1>1 DEF ParseInv
<1>3. CASE Length(pc) <= end - pos /\ Supported(pc)
  <2>1. /\ at' = [at EXCEPT ![pc] = pos] /\ pos' = pos + Length(pc) /\ pc' = Following[pc]
        /\ UNCHANGED <<buffer, cursor, start, end, outcome>>
    BY <1>3 DEF Read
  <2>2. TypeOK' /\ Progress'
    BY <1>1, <1>2, <1>3, <2>1, ReadAdvances
  <2>3. pc' # "returned"
    BY <1>1, <2>1, FieldNames DEF Reading
  <2> QED
    BY <2>2, <2>3, Unanswered
<1>4. CASE ~(Length(pc) <= end - pos /\ Supported(pc))
  <2>1. Fail
    BY <1>4 DEF Read
  <2>2. ~WellFormed(buffer, start)
    BY <1>1, <1>2, <1>4, Fits
  <2> QED
    BY <1>1, <1>2, <2>1, <2>2, FailPreserves
<1> QED
  BY <1>3, <1>4

(* Entering the section narrows the reader to it. *)
LEMMA EnterSignaturePreserves ==
  ASSUME ParseInv, EnterSignature
  PROVE  ParseInv'
<1>1. pc = "signature" /\ pc \in Field /\ pc \in Reading
  BY FieldNames DEF EnterSignature, Reading
<1>2. TypeOK /\ Progress
  BY <1>1 DEF ParseInv
<1>3. CASE Length(pc) <= end - pos
  <2>1. /\ at' = [at EXCEPT ![pc] = pos] /\ end' = pos + Length(pc) /\ pc' = "isv_signature"
        /\ UNCHANGED <<buffer, cursor, start, pos, outcome>>
    BY <1>3 DEF EnterSignature
  <2>2. Rank[pc] = 10 /\ Rank[pc'] = 11 /\ pc' \in Field /\ pc' # "returned"
    BY <1>1, <2>1, Ranks, FieldNames
  <2>3. /\ pos = start + 436 /\ end = Len(buffer) /\ start \in Nat /\ Len(buffer) \in Nat
        /\ Length(pc) \in Nat /\ Length(pc) = SectionLen(buffer, start)
        /\ pos <= end /\ pos \in Nat
    <3>1. pos = Place(buffer, start, pc) /\ end = Len(buffer)
      BY <1>2, <2>2 DEF Progress
    <3>2. Length(pc) \in Nat /\ Length(pc) = SectionLen(buffer, start)
      BY <1>1, <1>2, FieldLength, LengthType
    <3> QED
      BY <1>1, <1>2, <3>1, <3>2, Places, BufferType DEF TypeOK
  <2>4. TypeOK'
    <3>1. pos \in 0..Len(buffer) /\ at \in [Field -> 0..Len(buffer)]
      BY <1>2, <2>3 DEF TypeOK
    <3>2. at' \in [Field -> 0..Len(buffer)]
      BY <2>1, <3>1
    <3>3. pos + Length(pc) \in 0..Len(buffer) /\ pos \in 0..(pos + Length(pc))
      BY <1>3, <2>3
    <3>4. outcome = "none"
      BY <1>1, <1>2 DEF TypeOK
    <3> QED
      BY <1>2, <2>1, <2>2, <3>2, <3>3, <3>4 DEF TypeOK
  <2>5. Progress'
    <3>1. \A g \in Field : Rank[g] < 11 => Rank[g] < 10 \/ g = "signature"
      BY FieldNames, Ranks
    <3>2. \A g \in Field : Rank[g] < Rank[pc'] => at'[g] = Place(buffer', start', g)
      <4>1. pos = Place(buffer, start, pc) /\ at \in [Field -> 0..Len(buffer)]
            /\ \A g \in Field : Rank[g] < 10 => at[g] = Place(buffer, start, g)
        BY <1>2, <2>2 DEF Progress, TypeOK
      <4>2. ASSUME NEW g \in Field, Rank[g] < 11
            PROVE  at'[g] = Place(buffer, start, g)
        <5>1. CASE g = pc
          BY <1>1, <2>1, <4>1, <5>1
        <5>2. CASE g # pc
          BY <1>1, <2>1, <3>1, <4>1, <4>2, <5>2
        <5> QED
          BY <5>1, <5>2
      <4> QED
        BY <2>1, <2>2, <4>2
    <3>3. pos' = Place(buffer', start', pc')
      BY <2>1, <2>3, Places
    <3>4. start + 436 <= Len(buffer) /\ end' = start + 436 + SectionLen(buffer, start)
      BY <2>1, <2>3
    <3>5. cursor = start /\ U16(buffer, start) = 3 /\ U16(buffer, start + 2) = 2
      BY <1>2, <2>2 DEF Progress
    <3> QED
      BY <2>1, <2>2, <3>2, <3>3, <3>4, <3>5 DEF Progress
  <2> QED
    BY <2>2, <2>4, <2>5, Unanswered
<1>4. CASE ~(Length(pc) <= end - pos)
  <2>1. Fail
    BY <1>4 DEF EnterSignature
  <2>2. ~WellFormed(buffer, start)
    BY <1>1, <1>2, <1>4, Fits
  <2> QED
    BY <1>1, <1>2, <2>1, <2>2, FailPreserves
<1> QED
  BY <1>3, <1>4

(* Where the read ends, the quote is whole exactly if nothing is left.     *)
LEMMA EndExact ==
  ASSUME TypeOK, Progress, pc = "end"
  PROVE  /\ (pos = end) = WellFormed(buffer, start)
         /\ start \in Nat /\ SectionLen(buffer, start) \in Nat
         /\ AuthLen(buffer, start) \in Nat /\ CertLen(buffer, start) \in Nat
         /\ end = start + 436 + SectionLen(buffer, start) /\ end \in Nat
         /\ pos = start + 1020 + AuthLen(buffer, start) + CertLen(buffer, start)
<1>1. Rank[pc] = 20 /\ pc \in Reading
  BY Ranks DEF Reading
<1>2. /\ SectionLen(buffer, start) \in Nat
      /\ AuthLen(buffer, start) \in Nat /\ CertLen(buffer, start) \in Nat
  BY <1>1, LengthType
<1>3. /\ Len(buffer) \in Nat /\ start \in Nat /\ end \in Nat /\ end <= Len(buffer)
  BY BufferType DEF TypeOK
<1>4. /\ start + 436 <= Len(buffer) /\ end = start + 436 + SectionLen(buffer, start)
      /\ U16(buffer, start) = 3 /\ U16(buffer, start + 2) = 2 /\ CertType(buffer, start) = 5
  BY <1>1 DEF Progress
<1>5. pos = start + 1020 + AuthLen(buffer, start) + CertLen(buffer, start)
  BY Places DEF Progress
<1>6. WellFormed(buffer, start) <=>
        /\ SectionLen(buffer, start) \in 584..(Len(buffer) - start - 436)
        /\ 584 + AuthLen(buffer, start) <= SectionLen(buffer, start)
        /\ CertLen(buffer, start) = SectionLen(buffer, start) - 584 - AuthLen(buffer, start)
  BY <1>4 DEF WellFormed
<1>7. (pos = end) <=> WellFormed(buffer, start)
  <2>1. ASSUME NEW S \in Nat, NEW A \in Nat, NEW C \in Nat, NEW L \in Nat, NEW s \in Nat,
               s + 436 + S <= L
        PROVE  (s + 1020 + A + C = s + 436 + S) <=>
                 S \in 584..(L - s - 436) /\ 584 + A <= S /\ C = S - 584 - A
    BY <2>1
  <2> DEFINE S == SectionLen(buffer, start)
             A == AuthLen(buffer, start)
             C == CertLen(buffer, start)
  <2>2. S \in Nat /\ A \in Nat /\ C \in Nat
    BY <1>2
  <2>3. start + 436 + S <= Len(buffer)
    BY <1>3, <1>4
  <2>4. pos = start + 1020 + A + C /\ end = start + 436 + S
    BY <1>4, <1>5
  <2>5. WellFormed(buffer, start) <=>
          S \in 584..(Len(buffer) - start - 436) /\ 584 + A <= S /\ C = S - 584 - A
    BY <1>6
  <2> HIDE DEF S, A, C
  <2>6. (start + 1020 + A + C = start + 436 + S) <=>
          S \in 584..(Len(buffer) - start - 436) /\ 584 + A <= S /\ C = S - 584 - A
    BY <1>3, <2>1, <2>2, <2>3
  <2> QED
    BY <2>4, <2>5, <2>6
<1>8. WellFormed(buffer, start) \in BOOLEAN
  BY DEF WellFormed
<1> QED
  BY <1>2, <1>3, <1>4, <1>5, <1>7, <1>8

(* The last step answers exactly. *)
LEMMA FinishPreserves ==
  ASSUME ParseInv, Finish
  PROVE  ParseInv'
<1>1. pc = "end" /\ pc \in Reading
  BY DEF Finish, Reading
<1>2. TypeOK /\ Progress
  BY <1>1 DEF ParseInv
<1>3. CASE pos = end
  <2>1. /\ pc' = "returned" /\ outcome' = "parsed" /\ cursor' = end
        /\ UNCHANGED <<buffer, start, pos, end, at>>
    BY <1>3 DEF Finish
  <2>2. /\ WellFormed(buffer, start) /\ start \in Nat /\ end \in Nat
        /\ SectionLen(buffer, start) \in Nat
        /\ AuthLen(buffer, start) \in Nat /\ CertLen(buffer, start) \in Nat
        /\ end = start + 436 + SectionLen(buffer, start)
        /\ pos = start + 1020 + AuthLen(buffer, start) + CertLen(buffer, start)
    BY <1>1, <1>2, <1>3, EndExact
  <2>3. TypeOK'
    <3>1. end \in start..Len(buffer)
      BY <1>2, <2>2, BufferType DEF TypeOK
    <3> QED
      BY <1>2, <2>1, <3>1 DEF TypeOK
  <2>4. \A f \in Field : at[f] = Place(buffer, start, f)
    <3>1. \A f \in Field : Rank[f] < Rank["end"]
      BY FieldNames, Ranks
    <3> QED
      BY <1>1, <1>2, <3>1 DEF Progress
  <2>5. /\ at["isv_signature"] = start + 436 /\ at["attestation_pub_key"] = start + 500
        /\ at["qe_report"] = start + 564 /\ at["qe_report_signature"] = start + 948
        /\ at["qe_auth_data"] = start + 1014 /\ at["report_body"] = start + 48
        /\ at["cert_data"] = start + 1020 + AuthLen(buffer, start)
    BY <2>4, FieldNames, Places
  <2>6. ReadExact'
    <3>1. start + 1020 + AuthLen(buffer, start) = end - CertLen(buffer, start)
      BY <1>3, <2>2
    <3>2. WellFormed(buffer', start')
      BY <2>1, <2>2
    <3>3. /\ cursor' = start' + 436 + SectionLen(buffer', start')
          /\ at'["cert_data"] = cursor' - CertLen(buffer', start')
      BY <2>1, <2>2, <2>5, <3>1
    <3> QED
      BY <2>1, <2>5, <3>2, <3>3 DEF ReadExact
  <2>7. PeekAgrees'
    <3>1. start + 436 <= Len(buffer) /\ Len(buffer) \in Nat
      BY <2>2, BufferType DEF WellFormed
    <3>2. /\ PeekMrenclave(buffer, start) = start + 112
          /\ PeekReportData(buffer, start) = start + 368
      <4>1. /\ start + 48 + 64 + 32 <= Len(buffer) /\ start + 48 + 320 + 64 <= Len(buffer)
            /\ start + 48 + 64 = start + 112 /\ start + 48 + 320 = start + 368
        BY <2>2, <3>1
      <4> QED
        BY <4>1 DEF PeekMrenclave, PeekReportData
    <3>3. BodyMrenclave = 64 /\ BodyReportData = 320
      BY DEF BodyMrenclave, BodyReportData
    <3> QED
      BY <2>1, <2>2, <2>5, <3>2, <3>3 DEF PeekAgrees
  <2>8. pc' \notin Reading
    BY <2>1, FieldNames DEF Reading
  <2> QED
    BY <2>3, <2>6, <2>7, <2>8 DEF ParseInv
<1>4. CASE pos # end
  <2>1. Fail
    BY <1>4 DEF Finish
  <2>2. ~WellFormed(buffer, start)
    BY <1>1, <1>2, <1>4, EndExact
  <2> QED
    BY <1>1, <1>2, <2>1, <2>2, FailPreserves
<1> QED
  BY <1>3, <1>4

(* The caller's next call starts where its slice does. *)
LEMMA ReturnPreserves ==
  ASSUME ParseInv, Return
  PROVE  ParseInv'
<1>1. TypeOK'
  BY DEF ParseInv, TypeOK, Return
<1>2. pc' = "idle"
  BY DEF Return
<1>3. pc' \notin Reading
  BY <1>2, FieldNames DEF Reading
<1> QED
  BY <1>1, <1>2, <1>3 DEF ParseInv, ReadExact, PeekAgrees

(* The inductive invariant: between fields the reader stands where the     *)
(* layout of a version 3 quote has the next field, and what it has passed  *)
(* lies where the layout has it and is supported.                          *)
LEMMA ParseInvariant == Spec => []ParseInv
<1>1. Init => ParseInv
  <2> SUFFICES ASSUME Init
               PROVE  ParseInv
    OBVIOUS
  <2>1. buffer \in Seq(Byte) /\ Len(buffer) \in Nat
    BY BuffersAssumption DEF Init
  <2>2. at \in [Field -> 0..Len(buffer)]
    BY <2>1 DEF Init
  <2>3. TypeOK
    BY <2>1, <2>2 DEF Init, TypeOK
  <2>4. pc \notin Reading
    BY FieldNames DEF Init, Reading
  <2> QED
    BY <2>3, <2>4 DEF Init, ParseInv, ReadExact, PeekAgrees
<1>2. ParseInv /\ [Next]_vars => ParseInv'
  <2> SUFFICES ASSUME ParseInv, [Next]_vars
               PROVE  ParseInv'
    OBVIOUS
  <2>1. CASE UNCHANGED vars
    BY <2>1 DEF vars, ParseInv, TypeOK, Progress, ReadExact, PeekAgrees, WellFormed, SectionLen,
                AuthLen, CertType, CertLen, U16, U32, PeekMrenclave, PeekReportData, Place
  <2> QED
    BY <2>1, CallPreserves, ReadPreserves, EnterSignaturePreserves, FinishPreserves,
       ReturnPreserves DEF Next
<1> QED
  BY <1>1, <1>2, PTL DEF Spec

(* SgxQuote::read succeeds exactly when a whole quote lies at the cursor,  *)
(* moves the caller's slice past it and nothing else, and takes every      *)
(* field from where the layout has it, for every buffer.                   *)
THEOREM ReadIsExact == Spec => []ReadExact
<1>1. ParseInv => ReadExact
  BY DEF ParseInv
<1> QED
  BY <1>1, ParseInvariant, PTL

(* The peek helpers borrow what the parser finds, for every buffer that    *)
(* holds a quote.                                                          *)
THEOREM PeekIsRight == Spec => []PeekAgrees
<1>1. ParseInv => PeekAgrees
  BY DEF ParseInv
<1> QED
  BY <1>1, ParseInvariant, PTL

(* Every state of a reader has its type, and its cursors stay inside the   *)
(* buffer, for all buffers.                                                *)
THEOREM ParseTypeCorrect == Spec => []TypeOK
<1>1. ParseInv => TypeOK
  BY DEF ParseInv
<1> QED
  BY <1>1, ParseInvariant, PTL
-----------------------------------------------------------------------------
(* The visitor of signed documents. *)

(* The members with a key that have been read. *)
Before(key) == {i \in Visitor!Members(key) : i < next}

(* Nothing was read so far, or one member and what it says. *)
ReadSoFar(key, says) ==
  IF says = Visitor!Absent THEN Before(key) = {}
  ELSE \E i \in Visitor!Members(key) : Before(key) = {i} /\ envelope[i].value = says

(* What has been found is what the members read so far say, of which there *)
(* is one at most of either kind.                                          *)
VisitorInv ==
  /\ envelope \in Envelopes /\ next \in 1..(Len(envelope) + 1)
  /\ result \in {"reading", "signed", "error"}
  /\ ReadSoFar("body", body_raw) /\ ReadSoFar("signature", signature_hex)
  /\ signature_hex \in String \cup {Visitor!Absent}
  /\ Visitor!SignedIsRead

(* The members of an object are what the assumption says. *)
LEMMA EnvelopeType ==
  ASSUME VisitorInv
  PROVE  /\ envelope \in Seq([key : {"body", "signature", "other"},
                              value : STRING \ {Visitor!Absent}])
         /\ Len(envelope) \in Nat /\ DOMAIN envelope = 1..Len(envelope)
         /\ next \in Nat /\ next <= Len(envelope) + 1
         /\ \A i \in DOMAIN envelope : /\ envelope[i].key \in {"body", "signature", "other"}
                                       /\ envelope[i].value # Visitor!Absent
<1>1. envelope \in Seq([key : {"body", "signature", "other"}, value : STRING \ {Visitor!Absent}])
  BY EnvelopesAssumption DEF VisitorInv
<1>2. Len(envelope) \in Nat /\ DOMAIN envelope = 1..Len(envelope)
  BY <1>1
<1>3. next \in Nat /\ next <= Len(envelope) + 1
  BY <1>2 DEF VisitorInv
<1>4. \A i \in DOMAIN envelope :
        envelope[i] \in [key : {"body", "signature", "other"}, value : STRING \ {Visitor!Absent}]
  <2> DEFINE M == [key : {"body", "signature", "other"}, value : STRING \ {Visitor!Absent}]
  <2> HIDE DEF M
  <2>1. envelope \in Seq(M)
    BY <1>1 DEF M
  <2>2. \A i \in DOMAIN envelope : envelope[i] \in M
    BY <1>2, <2>1, ElementOfSeq
  <2> QED
    BY <2>2 DEF M
<1>5. \A i \in DOMAIN envelope : /\ envelope[i].key \in {"body", "signature", "other"}
                                 /\ envelope[i].value # Visitor!Absent
  BY <1>4
<1> QED
  BY <1>1, <1>2, <1>3, <1>5

(* A member read is one more of its kind, and none of another. *)
LEMMA OneMore ==
  ASSUME VisitorInv, next <= Len(envelope), next' = next + 1, envelope' = envelope, NEW key
  PROVE  Before(key)' = IF envelope[next].key = key THEN Before(key) \cup {next} ELSE Before(key)
<1>1. next \in DOMAIN envelope /\ next \in Nat /\ \A i \in DOMAIN envelope : i \in Nat
  <2>1. next \in Nat /\ Len(envelope) \in Nat /\ DOMAIN envelope = 1..Len(envelope)
    BY EnvelopeType
  <2>2. next >= 1
    BY <2>1 DEF VisitorInv
  <2> QED
    BY <2>1, <2>2
<1>2. \A i \in DOMAIN envelope : i < next + 1 <=> i < next \/ i = next
  BY <1>1
<1> QED
  BY <1>1, <1>2 DEF Before, Visitor!Members

(* A kind nothing has been read of has its first member. *)
LEMMA FirstOfKind ==
  ASSUME VisitorInv, next <= Len(envelope), next' = next + 1, envelope' = envelope,
         NEW key, key = envelope[next].key, Before(key) = {},
         NEW says, says = envelope[next].value
  PROVE  ReadSoFar(key, says)'
<1>1. next \in DOMAIN envelope /\ says # Visitor!Absent
  <2>1. next \in Nat /\ Len(envelope) \in Nat /\ DOMAIN envelope = 1..Len(envelope)
    BY EnvelopeType
  <2>2. next >= 1
    BY <2>1 DEF VisitorInv
  <2>3. next \in DOMAIN envelope
    BY <2>1, <2>2
  <2> QED
    BY <2>3, EnvelopeType
<1>2. Before(key)' = {next}
  BY OneMore
<1>3. next \in Visitor!Members(key)'
  BY <1>1 DEF Visitor!Members
<1> QED
  BY <1>1, <1>2, <1>3 DEF ReadSoFar

(* The other kinds are as they were. *)
LEMMA OtherKinds ==
  ASSUME VisitorInv, next <= Len(envelope), next' = next + 1, envelope' = envelope,
         NEW key, key # envelope[next].key, NEW says, ReadSoFar(key, says)
  PROVE  ReadSoFar(key, says)'
<1>1. Before(key)' = Before(key) /\ Visitor!Members(key)' = Visitor!Members(key)
  BY OneMore DEF Visitor!Members
<1> QED
  BY <1>1 DEF ReadSoFar

(* A second body, or a second or wrong signature, leaves no way to be the  *)
(* one of its kind.                                                        *)
LEMMA TwoOfAKind ==
  ASSUME VisitorInv, next <= Len(envelope), NEW key, key = envelope[next].key,
         Before(key) # {}, NEW says
  PROVE  ~Visitor!Sole(key, says)
<1>1. next \in Visitor!Members(key) /\ next \in Nat
  <2>1. next \in Nat /\ Len(envelope) \in Nat /\ DOMAIN envelope = 1..Len(envelope)
    BY EnvelopeType
  <2>2. next >= 1
    BY <2>1 DEF VisitorInv
  <2> QED
    BY <2>1, <2>2 DEF Visitor!Members
<1>2. PICK i \in Visitor!Members(key) : i < next
  BY DEF Before
<1>3. i # next
  BY <1>1, <1>2
<1> QED
  BY <1>1, <1>2, <1>3 DEF Visitor!Sole

(* At the end the members of a kind are those read. *)
LEMMA AllRead ==
  ASSUME VisitorInv, next > Len(envelope), NEW key
  PROVE  Before(key) = Visitor!Members(key)
<1>1. \A i \in DOMAIN envelope : i < next
  BY EnvelopeType
<1> QED
  BY <1>1 DEF Before, Visitor!Members

(* And what was found is what the only one of its kind says, if there is   *)
(* an only one.                                                            *)
LEMMA FoundIsSole ==
  ASSUME VisitorInv, next > Len(envelope), NEW key, NEW found, ReadSoFar(key, found)
  PROVE  /\ found # Visitor!Absent => Visitor!Sole(key, found)
         /\ \A says : Visitor!Sole(key, says) => says = found /\ found # Visitor!Absent
<1>1. Before(key) = Visitor!Members(key)
  BY AllRead
<1>2. found # Visitor!Absent => Visitor!Sole(key, found)
  BY <1>1 DEF ReadSoFar, Visitor!Sole
<1>3. ASSUME NEW says, Visitor!Sole(key, says) PROVE says = found /\ found # Visitor!Absent
  <2>1. PICK i \in Visitor!Members(key) : Visitor!Members(key) = {i} /\ envelope[i].value = says
    BY <1>3 DEF Visitor!Sole
  <2> QED
    BY <1>1, <2>1 DEF ReadSoFar
<1> QED
  BY <1>2, <1>3

(* Reading a member, or giving up over it, keeps the books. *)
LEMMA BodyKeyKeeps ==
  ASSUME VisitorInv, Visitor!BodyKey
  PROVE  VisitorInv'
<1>1. result = "reading" /\ next <= Len(envelope) /\ envelope[next].key = "body"
  BY DEF Visitor!BodyKey, Visitor!Reading, Visitor!Member
<1>2. CASE body_raw = Visitor!Absent /\ body_raw' = envelope[next].value /\ next' = next + 1
           /\ UNCHANGED <<envelope, signature_hex, result>>
  <2>1. Before("body") = {}
    BY <1>2 DEF VisitorInv, ReadSoFar
  <2>2. \A says : says = envelope[next].value => ReadSoFar("body", says)'
    BY <1>1, <1>2, <2>1, FirstOfKind
  <2>3. \A says : ReadSoFar("signature", says) => ReadSoFar("signature", says)'
    BY <1>1, <1>2, OtherKinds
  <2>4. ReadSoFar("body", body_raw)'
    BY <1>2, <2>2 DEF ReadSoFar
  <2>5. ReadSoFar("signature", signature_hex)'
    BY <1>2, <2>3 DEF VisitorInv, ReadSoFar
  <2>6. next' \in 1..(Len(envelope') + 1)
    BY <1>1, <1>2, EnvelopeType
  <2> QED
    BY <1>1, <1>2, <2>4, <2>5, <2>6 DEF VisitorInv, Visitor!SignedIsRead
<1>3. CASE body_raw # Visitor!Absent /\ Visitor!Error
  <2>1. Before("body") # {}
    BY <1>3 DEF VisitorInv, ReadSoFar
  <2>2. \A says : ~Visitor!Sole("body", says)
    BY <1>1, <2>1, TwoOfAKind
  <2>3. result' = "error" /\ UNCHANGED <<envelope, next, body_raw, signature_hex>>
    BY <1>3 DEF Visitor!Error
  <2> QED
    BY <2>2, <2>3 DEF VisitorInv, ReadSoFar, Before, Visitor!SignedIsRead, Visitor!Sole,
                      Visitor!Members
<1> QED
  BY <1>2, <1>3 DEF Visitor!BodyKey, Visitor!Member

(* A signature member is taken once; a second is an error, as with the     *)
(* body.                                                                   *)
LEMMA SignatureKeyKeeps ==
  ASSUME VisitorInv, Visitor!SignatureKey
  PROVE  VisitorInv'
<1>1. result = "reading" /\ next <= Len(envelope) /\ envelope[next].key = "signature"
  BY DEF Visitor!SignatureKey, Visitor!Reading, Visitor!Member
<1>2. CASE /\ signature_hex = Visitor!Absent /\ envelope[next].value \in String
           /\ signature_hex' = envelope[next].value /\ next' = next + 1
           /\ UNCHANGED <<envelope, body_raw, result>>
  <2>1. Before("signature") = {}
    BY <1>2 DEF VisitorInv, ReadSoFar
  <2>2. \A says : says = envelope[next].value => ReadSoFar("signature", says)'
    BY <1>1, <1>2, <2>1, FirstOfKind
  <2>3. \A says : ReadSoFar("body", says) => ReadSoFar("body", says)'
    BY <1>1, <1>2, OtherKinds
  <2>4. ReadSoFar("signature", signature_hex)'
    BY <1>2, <2>2 DEF ReadSoFar
  <2>5. ReadSoFar("body", body_raw)'
    BY <1>2, <2>3 DEF VisitorInv, ReadSoFar
  <2>6. next' \in 1..(Len(envelope') + 1)
    BY <1>1, <1>2, EnvelopeType
  <2> QED
    BY <1>1, <1>2, <2>4, <2>5, <2>6 DEF VisitorInv, Visitor!SignedIsRead
<1>3. CASE ~(signature_hex = Visitor!Absent /\ envelope[next].value \in String) /\ Visitor!Error
  <2>1. \A says \in String : ~Visitor!Sole("signature", says)
    <3>1. CASE signature_hex # Visitor!Absent
      <4>1. Before("signature") # {}
        BY <3>1 DEF VisitorInv, ReadSoFar
      <4> QED
        BY <1>1, <4>1, TwoOfAKind
    <3>2. CASE envelope[next].value \notin String
      <4>1. next \in Visitor!Members("signature")
        <5>1. next \in Nat /\ Len(envelope) \in Nat /\ DOMAIN envelope = 1..Len(envelope)
          BY EnvelopeType
        <5>2. next >= 1
          BY <5>1 DEF VisitorInv
        <5> QED
          BY <1>1, <5>1, <5>2 DEF Visitor!Members
      <4> QED
        BY <3>2, <4>1 DEF Visitor!Sole
    <3> QED
      BY <1>3, <3>1, <3>2
  <2>2. result' = "error" /\ UNCHANGED <<envelope, next, body_raw, signature_hex>>
    BY <1>3 DEF Visitor!Error
  <2> QED
    BY <2>1, <2>2 DEF VisitorInv, ReadSoFar, Before, Visitor!SignedIsRead, Visitor!Sole,
                      Visitor!Members
<1> QED
  BY <1>2, <1>3 DEF Visitor!SignatureKey, Visitor!Member

(* Any other member is passed over.                                        *)
LEMMA OtherKeyKeeps ==
  ASSUME VisitorInv, Visitor!OtherKey
  PROVE  VisitorInv'
<1>1. /\ result = "reading" /\ next <= Len(envelope) /\ envelope[next].key = "other"
      /\ next' = next + 1 /\ UNCHANGED <<envelope, body_raw, signature_hex, result>>
  BY DEF Visitor!OtherKey, Visitor!Reading, Visitor!Member
<1>2. \A says : ReadSoFar("body", says) => ReadSoFar("body", says)'
  BY <1>1, OtherKinds
<1>3. \A says : ReadSoFar("signature", says) => ReadSoFar("signature", says)'
  BY <1>1, OtherKinds
<1>4. ReadSoFar("body", body_raw)' /\ ReadSoFar("signature", signature_hex)'
  BY <1>1, <1>2, <1>3 DEF VisitorInv, ReadSoFar
<1>5. next' \in 1..(Len(envelope') + 1)
  BY <1>1, EnvelopeType
<1> QED
  BY <1>1, <1>4, <1>5 DEF VisitorInv, Visitor!SignedIsRead

(* At the end the document is decided on. *)
LEMMA EndKeeps ==
  ASSUME VisitorInv, Visitor!End
  PROVE  VisitorInv'
<1>1. /\ result = "reading" /\ next > Len(envelope)
      /\ UNCHANGED <<envelope, next, body_raw, signature_hex>>
  BY DEF Visitor!End, Visitor!Error
<1>2. /\ body_raw # Visitor!Absent => Visitor!Sole("body", body_raw)
      /\ \A says : Visitor!Sole("body", says) => says = body_raw /\ body_raw # Visitor!Absent
  BY <1>1, FoundIsSole DEF VisitorInv
<1>3. /\ signature_hex # Visitor!Absent => Visitor!Sole("signature", signature_hex)
      /\ \A says : Visitor!Sole("signature", says)
                     => says = signature_hex /\ signature_hex # Visitor!Absent
  BY <1>1, FoundIsSole DEF VisitorInv
<1>4. Visitor!SignedIsRead'
  <2>1. CASE body_raw \in Body /\ signature_hex # Visitor!Absent /\ result' = "signed"
    <3>1. Visitor!Sole("body", body_raw) /\ Visitor!Sole("signature", signature_hex)
      BY <1>2, <1>3, <2>1, EnvelopesAssumption
    <3> QED
      BY <1>1, <2>1, <3>1 DEF Visitor!SignedIsRead, Visitor!Sole, Visitor!Members
  <2>2. CASE ~(body_raw \in Body /\ signature_hex # Visitor!Absent) /\ result' = "error"
    <3>1. ~\E b \in Body, s \in String : Visitor!Sole("body", b) /\ Visitor!Sole("signature", s)
      BY <1>2, <1>3, <2>2
    <3> QED
      BY <1>1, <2>2, <3>1 DEF Visitor!SignedIsRead, Visitor!Sole, Visitor!Members
  <2> QED
    BY <2>1, <2>2 DEF Visitor!End, Visitor!Error
<1>5. result' \in {"reading", "signed", "error"}
  BY DEF Visitor!End, Visitor!Error
<1>6. ReadSoFar("body", body_raw)' /\ ReadSoFar("signature", signature_hex)'
  BY <1>1 DEF VisitorInv, ReadSoFar, Before, Visitor!Members
<1> QED
  BY <1>1, <1>4, <1>5, <1>6 DEF VisitorInv

(* The visitor starts with nothing found. *)
LEMMA VisitorStart == Visitor!Init => VisitorInv
<1> SUFFICES ASSUME Visitor!Init PROVE VisitorInv
  OBVIOUS
<1>1. /\ envelope \in Envelopes /\ next = 1 /\ body_raw = Visitor!Absent
      /\ signature_hex = Visitor!Absent /\ result = "reading"
  BY DEF Visitor!Init
<1>2. Len(envelope) \in Nat /\ DOMAIN envelope = 1..Len(envelope)
  BY <1>1, EnvelopesAssumption
<1>3. \A key : Before(key) = {}
  BY <1>1, <1>2 DEF Before, Visitor!Members
<1> QED
  BY <1>1, <1>2, <1>3 DEF VisitorInv, ReadSoFar, Visitor!SignedIsRead

(* The invariant of the visitor is inductive.                              *)
LEMMA VisitorStep == VisitorInv /\ [Visitor!Next]_visitorVars => VisitorInv'
<1> SUFFICES ASSUME VisitorInv, [Visitor!Next]_visitorVars PROVE VisitorInv'
  OBVIOUS
<1>1. CASE UNCHANGED visitorVars
  BY <1>1 DEF visitorVars, VisitorInv, ReadSoFar, Before, Visitor!SignedIsRead, Visitor!Sole,
              Visitor!Members
<1> QED
  BY <1>1, BodyKeyKeeps, SignatureKeyKeeps, OtherKeyKeeps, EndKeeps DEF Visitor!Next

(* A signed document is accepted exactly when it has one body of the type  *)
(* expected and one signature, and is decided on by that body, for all     *)
(* objects with any members in any order.                                  *)
THEOREM OnlySignedIsRead == ReadersSpec => []SignedIsRead
<1>1. ReadersInit => VisitorInv
  BY VisitorStart DEF ReadersInit, VisitorParked
<1>2. VisitorInv /\ [ReadersNext]_<<reader, vars, visitorVars, scanVars, recordVars>> => VisitorInv'
  BY VisitorStep DEF ReadersNext
<1>3. VisitorInv => SignedIsRead
  BY DEF VisitorInv, SignedIsRead
<1> QED
  BY <1>1, <1>2, <1>3, PTL DEF ReadersSpec

-----------------------------------------------------------------------------
(* The scan for the change record: places in a set of numbers. *)

(* A set of numbers that is not empty has a least element.                 *)
LEMMA LeastOf ==
  ASSUME NEW S \in SUBSET Nat, S # {}
  PROVE  \E m \in S : \A n \in S : m <= n
<1> DEFINE Less == {p \in Nat \X Nat : p[1] < p[2]}
<1>1. IsWellFoundedOn(Less, Nat)
  BY NatLessThanWellFounded, Zenon DEF OpToRel
<1>2. PICK m \in S : \A n \in S : ~(<<n, m>> \in Less)
  <2> HIDE DEF Less
  <2> QED BY <1>1, WFMin
<1>3. \A n \in S : ~(n < m)
  BY <1>2
<1> QED
  BY <1>3

(* The operators the description is read with are the ones of the library. *)
LEMMA SameCardinality == \A S : Record!Cardinality(S) = Cardinality(S)
  BY DEF Record!Cardinality, Cardinality

(* The place of an element, in the operators of the library.               *)
LEMMA PlaceIs ==
  ASSUME NEW S, NEW j
  PROVE  Record!Place(S, j) = Cardinality({m \in S : m <= j})
  BY SameCardinality DEF Record!Place

(* The least element is what Min chooses. *)
LEMMA MinIs ==
  ASSUME NEW S \in SUBSET Nat, NEW m \in S, \A n \in S : m <= n
  PROVE  Record!Min(S) = m
<1>1. Record!Min(S) \in S /\ \A n \in S : Record!Min(S) <= n
  BY DEF Record!Min
<1>2. \A n \in S : n \in Nat
  OBVIOUS
<1>3. /\ Record!Min(S) \in Nat /\ m \in Nat
      /\ m <= Record!Min(S) /\ Record!Min(S) <= m
  BY <1>1, <1>2
<1> QED
  BY <1>3

(* There is an element at every place of a set up to a bound. *)
LEMMA NthIs ==
  ASSUME NEW top \in Nat, NEW S \in SUBSET (0..top), NEW k \in 1..Cardinality(S)
  PROVE  Record!Nth(S, k) \in S /\ Record!Place(S, Record!Nth(S, k)) = k
<1>1. IsFiniteSet(S)
  <2>1. S \in SUBSET (0..top) /\ IsFiniteSet(0..top)
    BY FS_Interval
  <2> QED
    BY <2>1, FS_Subset
<1>2. \A n \in S : n \in Nat /\ n <= top
  OBVIOUS
<1> DEFINE upTo == [j \in Nat |-> {m \in S : m <= j}]
           size == [j \in Nat |-> Cardinality(upTo[j])]
<1>3. \A j \in Nat : IsFiniteSet(upTo[j]) /\ size[j] \in Nat
  <2>1. \A j \in Nat : upTo[j] \in SUBSET S
    OBVIOUS
  <2> QED
    BY <1>1, <2>1, FS_Subset, FS_CardinalityType
<1>4. Cardinality(S) \in Nat /\ k \in Nat /\ 1 <= k /\ k <= Cardinality(S)
  BY <1>1, FS_CardinalityType
<1>5. size[top] = Cardinality(S)
  <2>1. upTo[top] = S
    BY <1>2
  <2> QED
    BY <2>1
<1>6. \A j \in Nat \ {0} : size[j] = IF j \in S THEN size[j - 1] + 1 ELSE size[j - 1]
  <2> SUFFICES ASSUME NEW j \in Nat \ {0}
               PROVE  size[j] = IF j \in S THEN size[j - 1] + 1 ELSE size[j - 1]
    OBVIOUS
  <2>1. j - 1 \in Nat /\ j \in Nat
    OBVIOUS
  <2>2. \A m \in S : m <= j <=> m <= j - 1 \/ m = j
    BY <1>2, <2>1
  <2>3. upTo[j] = IF j \in S THEN upTo[j - 1] \cup {j} ELSE upTo[j - 1]
    BY <2>1, <2>2
  <2>4. j \notin upTo[j - 1] /\ IsFiniteSet(upTo[j - 1])
    <3>1. ~(j <= j - 1)
      BY <2>1
    <3>2. upTo[j - 1] = {m \in S : m <= j - 1}
      BY <2>1
    <3>3. IsFiniteSet(upTo[j - 1])
      BY <1>3, <2>1
    <3> QED
      BY <3>1, <3>2, <3>3
  <2>5. size[j] = Cardinality(upTo[j]) /\ size[j - 1] = Cardinality(upTo[j - 1])
    BY <2>1
  <2> HIDE DEF upTo, size
  <2>6. Cardinality(upTo[j - 1] \cup {j}) = Cardinality(upTo[j - 1]) + 1
    BY <2>4, FS_AddElement
  <2> QED
    BY <2>3, <2>5, <2>6
<1>7. size[0] = IF 0 \in S THEN 1 ELSE 0
  <2>1. upTo[0] = IF 0 \in S THEN {0} ELSE {}
    <3>1. upTo[0] = {m \in S : m <= 0}
      OBVIOUS
    <3>2. \A m \in S : m <= 0 <=> m = 0
      BY <1>2
    <3> HIDE DEF upTo
    <3> QED
      BY <3>1, <3>2
  <2>2. size[0] = Cardinality(upTo[0])
    OBVIOUS
  <2> HIDE DEF upTo, size
  <2> QED
    BY <2>1, <2>2, FS_Singleton, FS_EmptySet
<1>8. \A j \in S : size[j] = Record!Place(S, j)
  <2> SUFFICES ASSUME NEW j \in S PROVE size[j] = Record!Place(S, j)
    OBVIOUS
  <2>1. j \in Nat
    BY <1>2
  <2>2. size[j] = Cardinality({m \in S : m <= j})
    BY <2>1
  <2> QED
    BY <2>2, PlaceIs
<1> HIDE DEF upTo, size
<1>9. PICK j \in Nat : size[j] >= k /\ \A n \in Nat : size[n] >= k => j <= n
  <2> DEFINE enough == {j \in Nat : size[j] >= k}
  <2>1. enough \in SUBSET Nat /\ top \in enough
    BY <1>4, <1>5
  <2> HIDE DEF enough
  <2>2. PICK j \in enough : \A n \in enough : j <= n
    BY <2>1, LeastOf
  <2> QED
    BY <2>2 DEF enough
<1>10. j \in S /\ size[j] = k
  <2>1. CASE j = 0
    BY <1>4, <1>7, <1>9, <2>1
  <2>2. CASE j # 0
    <3>1. j - 1 \in Nat /\ j \in Nat \ {0} /\ ~(j <= j - 1)
      BY <2>2
    <3>2. size[j - 1] \in Nat /\ ~(size[j - 1] >= k)
      BY <1>3, <1>9, <3>1
    <3>3. size[j] = IF j \in S THEN size[j - 1] + 1 ELSE size[j - 1]
      BY <1>6, <3>1
    <3> QED
      BY <1>4, <1>9, <3>2, <3>3
  <2> QED
    BY <2>1, <2>2
<1>11. j \in {i \in S : Record!Place(S, i) = k}
  BY <1>8, <1>10
<1> QED
  BY <1>11 DEF Record!Nth

-----------------------------------------------------------------------------
(* A description that gets one line more. *)

Described == Seq(Record!Line)

StopsAt(b, j) == b[j].kind \in Record!Stops

(* The value of a label line is settled once it stands beside it, or a     *)
(* line under it ends the field.                                           *)
Settled(b, i) ==
  b[i].value # Record!Empty \/ \E j \in (i + 1)..Len(b) : StopsAt(b, j)

LabelLines(b, label) == {i \in 1..Len(b) : b[i].kind = "label" /\ b[i].label = label}

Valued(b, label) == {i \in LabelLines(b, label) : Record!Values(b, i) # <<>>}

(* What a line is, and that only a text line ends no field.                *)
LEMMA LineIs ==
  ASSUME NEW x \in Record!Line
  PROVE  /\ x.kind \in {"label", "text", "blank", "box", "ticked"} /\ x.value \in Record!Value
         /\ x.kind \in Record!Stops <=> x.kind # "text"
  BY DEF Record!Line, Record!Stops

(* A description is a sequence of lines.                                   *)
LEMMA LinesAre ==
  ASSUME NEW b \in Described
  PROVE  /\ Len(b) \in Nat /\ DOMAIN b = 1..Len(b)
         /\ \A i \in 1..Len(b) : b[i] \in Record!Line
<1> DEFINE L == Record!Line
<1> HIDE DEF L
<1>1. b \in Seq(L)
  BY DEF Described, L
<1>2. \A i \in 1..Len(b) : b[i] \in L
  BY <1>1, ElementOfSeq
<1>3. Len(b) \in Nat /\ DOMAIN b = 1..Len(b)
  BY <1>1
<1> QED
  BY <1>2, <1>3 DEF L

(* One line more changes none of the lines. *)
LEMMA LineAdded ==
  ASSUME NEW b \in Described, NEW x \in Record!Line
  PROVE  /\ Append(b, x) \in Described /\ Len(Append(b, x)) = Len(b) + 1
         /\ \A i \in 1..Len(b) : Append(b, x)[i] = b[i]
         /\ Append(b, x)[Len(b) + 1] = x
<1> DEFINE L == Record!Line
<1> HIDE DEF L
<1>1. b \in Seq(L) /\ x \in L
  BY DEF Described, L
<1>2. /\ Append(b, x) \in Seq(L) /\ Len(Append(b, x)) = Len(b) + 1
      /\ \A i \in 1..Len(b) : Append(b, x)[i] = b[i]
      /\ Append(b, x)[Len(b) + 1] = x
  BY <1>1, AppendProperties
<1> QED
  BY <1>2 DEF Described, L

(* A field ends at the first line under it that stops it, or with the text. *)
LEMMA EndIs ==
  ASSUME NEW b \in Described, NEW i \in 1..Len(b),
         NEW e \in (i + 1)..(Len(b) + 1), e > Len(b) \/ StopsAt(b, e),
         \A j \in (i + 1)..(e - 1) : ~StopsAt(b, j)
  PROVE  Record!EndOfField(b, i) = e
<1> DEFINE ends == {j \in (i + 1)..(Len(b) + 1) : j > Len(b) \/ StopsAt(b, j)}
<1>1. Len(b) \in Nat /\ i \in Nat /\ e \in Nat
  BY LinesAre
<1>2. ends \in SUBSET Nat /\ e \in ends
  BY <1>1
<1>3. \A j \in ends : e <= j
  BY <1>1
<1>4. Record!EndOfField(b, i) = Record!Min(ends)
  BY DEF Record!EndOfField, StopsAt
<1> HIDE DEF ends
<1> QED
  BY <1>2, <1>3, <1>4, MinIs

(* If a line stops a field, one does so first. *)
LEMMA EndFound ==
  ASSUME NEW b \in Described, NEW i \in 1..Len(b), NEW j \in (i + 1)..Len(b), StopsAt(b, j)
  PROVE  \E e \in (i + 1)..Len(b) : StopsAt(b, e) /\ \A n \in (i + 1)..(e - 1) : ~StopsAt(b, n)
<1> DEFINE stops == {n \in (i + 1)..Len(b) : StopsAt(b, n)}
<1>1. Len(b) \in Nat /\ i \in Nat
  BY LinesAre
<1>2. stops \in SUBSET Nat /\ stops # {}
  BY <1>1
<1>3. PICK e \in stops : \A n \in stops : e <= n
  <2> HIDE DEF stops
  <2> QED
    BY <1>2, LeastOf
<1>4. e \in (i + 1)..Len(b) /\ StopsAt(b, e)
  BY <1>3
<1>5. ASSUME NEW n \in (i + 1)..(e - 1) PROVE ~StopsAt(b, n)
  <2>1. n \in (i + 1)..Len(b) /\ ~(e <= n)
    BY <1>1, <1>4
  <2> QED
    BY <1>3, <2>1
<1> QED
  BY <1>4, <1>5

(* A greater element comes last and moves no other. *)
LEMMA NthMore ==
  ASSUME NEW top \in Nat, NEW S \in SUBSET (0..top), NEW T, T = S \cup {top + 1}
  PROVE  /\ Cardinality(S) \in Nat /\ Cardinality(T) = Cardinality(S) + 1
         /\ \A k \in 1..Cardinality(S) : Record!Nth(T, k) = Record!Nth(S, k)
         /\ Record!Nth(T, Cardinality(S) + 1) = top + 1
<1>1. IsFiniteSet(S)
  <2>1. S \in SUBSET (0..top) /\ IsFiniteSet(0..top)
    BY FS_Interval
  <2> QED
    BY <2>1, FS_Subset
<1>2. \A n \in S : n \in Nat /\ n <= top /\ n # top + 1 /\ ~(top + 1 <= n) /\ n <= top + 1
  OBVIOUS
<1>3. Cardinality(S) \in Nat
  BY <1>1, FS_CardinalityType
<1>4. Cardinality(T) = Cardinality(S) + 1
  <2>1. top + 1 \notin S
    BY <1>2
  <2> QED
    BY <1>1, <2>1, FS_AddElement
<1>5. ASSUME NEW j \in S
      PROVE  /\ Record!Place(T, j) = Record!Place(S, j) /\ Record!Place(S, j) \in Nat
             /\ Record!Place(S, j) <= Cardinality(S)
  <2>1. {m \in T : m <= j} = {m \in S : m <= j}
    BY <1>2
  <2>2. {m \in S : m <= j} \in SUBSET S
    OBVIOUS
  <2>3. Cardinality({m \in S : m <= j}) \in Nat /\ Cardinality({m \in S : m <= j}) <= Cardinality(S)
    BY <1>1, <2>2, FS_Subset, FS_CardinalityType
  <2> QED
    BY <2>1, <2>3, PlaceIs
<1>6. Record!Place(T, top + 1) = Cardinality(S) + 1
  <2>1. \A m \in T : m <= top + 1
    BY <1>2
  <2>2. {m \in T : m <= top + 1} = T
    BY <2>1
  <2> QED
    BY <1>4, <2>2, PlaceIs
<1>7. ASSUME NEW k \in 1..Cardinality(S)
      PROVE  Record!Nth(T, k) = Record!Nth(S, k)
  <2>1. k # Cardinality(S) + 1
    BY <1>3
  <2>2. {i \in T : Record!Place(T, i) = k} = {i \in S : Record!Place(S, i) = k}
    BY <1>5, <1>6, <2>1
  <2> QED
    BY <2>2 DEF Record!Nth
<1>8. Record!Nth(T, Cardinality(S) + 1) = top + 1
  <2>1. \A i \in S : Record!Place(T, i) # Cardinality(S) + 1
    <3>1. \A p \in Nat : p <= Cardinality(S) => p # Cardinality(S) + 1
      BY <1>3
    <3> QED
      BY <1>5, <3>1
  <2>2. {i \in T : Record!Place(T, i) = Cardinality(S) + 1} = {top + 1}
    BY <1>6, <2>1
  <2> QED
    BY <2>2 DEF Record!Nth
<1> QED
  BY <1>3, <1>4, <1>7, <1>8

(* The filled lines between two are numbers up to the last. *)
LEMMA FilledIs ==
  ASSUME NEW b, NEW first \in Nat, NEW last \in Nat
  PROVE  Record!Filled(b, first, last) \in SUBSET (0..last)
  BY DEF Record!Filled

(* What is collected is the values of the filled lines, in their order.    *)
LEMMA CollectedIs ==
  ASSUME NEW b, NEW first, NEW last
  PROVE  Record!Collected(b, first, last) =
           [k \in 1..Cardinality(Record!Filled(b, first, last)) |->
              b[Record!Nth(Record!Filled(b, first, last), k)].value]
  BY SameCardinality DEF Record!Collected

(* What is collected from the same lines is the same. *)
LEMMA CollectedSame ==
  ASSUME NEW b, NEW c, NEW first \in Nat, NEW last \in Nat,
         \A j \in first..last : c[j] = b[j]
  PROVE  Record!Collected(c, first, last) = Record!Collected(b, first, last)
<1> DEFINE S == Record!Filled(b, first, last)
<1>1. Record!Filled(c, first, last) = S
  BY DEF Record!Filled
<1>2. S \in SUBSET (0..last) /\ S \subseteq first..last
  BY FilledIs DEF Record!Filled
<1> HIDE DEF S
<1>3. \A k \in 1..Cardinality(S) : c[Record!Nth(S, k)].value = b[Record!Nth(S, k)].value
  BY <1>2, NthIs
<1>4. Record!Collected(c, first, last) = [k \in 1..Cardinality(S) |-> c[Record!Nth(S, k)].value]
  BY <1>1, CollectedIs
<1>5. Record!Collected(b, first, last) = [k \in 1..Cardinality(S) |-> b[Record!Nth(S, k)].value]
  BY CollectedIs DEF S
<1> QED
  BY <1>3, <1>4, <1>5

(* A sequence is what it has at each index.                                *)
LEMMA SequenceIs ==
  ASSUME NEW V, NEW a \in Seq(V)
  PROVE  a = [k \in 1..Len(a) |-> a[k]]
  OBVIOUS

(* A line more adds its value, if it has one. *)
LEMMA CollectedMore ==
  ASSUME NEW b, NEW first \in Nat, NEW last \in Nat, first <= last + 1
  PROVE  Record!Collected(b, first, last + 1) =
           IF b[last + 1].value # Record!Empty
           THEN Append(Record!Collected(b, first, last), b[last + 1].value)
           ELSE Record!Collected(b, first, last)
<1> DEFINE S == Record!Filled(b, first, last)
           T == Record!Filled(b, first, last + 1)
<1>0. \A j : j \in first..(last + 1) <=> j \in first..last \/ j = last + 1
  OBVIOUS
<1>1. CASE b[last + 1].value = Record!Empty
  <2>1. T = S
    BY <1>0, <1>1 DEF Record!Filled
  <2>2. Record!Collected(b, first, last + 1) = Record!Collected(b, first, last)
    BY <2>1, CollectedIs
  <2> QED
    BY <1>1, <2>2
<1>2. CASE b[last + 1].value # Record!Empty
  <2>1. T = S \cup {last + 1}
    BY <1>0, <1>2 DEF Record!Filled
  <2>2. S \in SUBSET (0..last)
    BY FilledIs
  <2>3. Record!Collected(b, first, last + 1)
          = [k \in 1..Cardinality(T) |-> b[Record!Nth(T, k)].value]
    BY CollectedIs
  <2>4. Record!Collected(b, first, last) = [k \in 1..Cardinality(S) |-> b[Record!Nth(S, k)].value]
    BY CollectedIs
  <2> HIDE DEF S, T
  <2>5. /\ Cardinality(S) \in Nat /\ Cardinality(T) = Cardinality(S) + 1
        /\ \A k \in 1..Cardinality(S) : Record!Nth(T, k) = Record!Nth(S, k)
        /\ Record!Nth(T, Cardinality(S) + 1) = last + 1
    BY <2>1, <2>2, NthMore
  <2> DEFINE old == [k \in 1..Cardinality(S) |-> b[Record!Nth(S, k)].value]
             new == [k \in 1..Cardinality(T) |-> b[Record!Nth(T, k)].value]
             x == b[last + 1].value
  <2>6. new = Append(old, x)
    <3> DEFINE V == {x} \cup {old[k] : k \in 1..Cardinality(S)}
    <3>1. old \in Seq(V) /\ Len(old) = Cardinality(S) /\ x \in V
      BY <2>5
    <3>2. new = [k \in 1..(Cardinality(S) + 1) |-> new[k]]
      BY <2>5
    <3>3. ASSUME NEW k \in 1..(Cardinality(S) + 1)
          PROVE  new[k] = IF k = Cardinality(S) + 1 THEN x ELSE old[k]
      <4>1. CASE k = Cardinality(S) + 1
        BY <2>5, <4>1
      <4>2. CASE k # Cardinality(S) + 1
        <5>1. k \in 1..Cardinality(S) /\ k \in 1..Cardinality(T)
          BY <2>5, <4>2
        <5> QED
          BY <2>5, <4>2, <5>1
      <4> QED
        BY <4>1, <4>2
    <3> HIDE DEF V, old, new, x
    <3>4. /\ Append(old, x) \in Seq(V) /\ Len(Append(old, x)) = Cardinality(S) + 1
          /\ \A k \in 1..Cardinality(S) : Append(old, x)[k] = old[k]
          /\ Append(old, x)[Cardinality(S) + 1] = x
      BY <3>1, AppendProperties
    <3>5. \A k \in 1..(Cardinality(S) + 1) : new[k] = Append(old, x)[k]
      <4>1. \A k \in 1..(Cardinality(S) + 1) : k # Cardinality(S) + 1 => k \in 1..Cardinality(S)
        BY <2>5
      <4> QED
        BY <3>3, <3>4, <4>1
    <3>6. Append(old, x) = [k \in 1..(Cardinality(S) + 1) |-> Append(old, x)[k]]
      BY <3>4, SequenceIs
    <3> QED
      BY <3>2, <3>5, <3>6
  <2> HIDE DEF old, new, x
  <2> QED
    BY <1>2, <2>3, <2>4, <2>6 DEF old, new, x
<1> QED
  BY <1>1, <1>2

(* What a label line has: what stands beside it; or the lines under it up  *)
(* to the first that ends the field, or up to the end of the text.         *)
LEMMA BesideIs ==
  ASSUME NEW b, NEW i, b[i].value # Record!Empty
  PROVE  Record!Values(b, i) = <<b[i].value>>
  BY DEF Record!Values

(* A field with nothing beside its label has the lines under it up to its  *)
(* end.                                                                    *)
LEMMA UnderIs ==
  ASSUME NEW b \in Described, NEW i \in 1..Len(b), b[i].value = Record!Empty,
         NEW e \in (i + 1)..(Len(b) + 1), e > Len(b) \/ StopsAt(b, e),
         \A j \in (i + 1)..(e - 1) : ~StopsAt(b, j)
  PROVE  Record!Values(b, i) = Record!Collected(b, i + 1, e - 1)
<1>1. Record!EndOfField(b, i) = e
  BY EndIs
<1> QED
  BY <1>1 DEF Record!Values

(* A field that is not settled has all the lines under its label.          *)
LEMMA OpenIs ==
  ASSUME NEW b \in Described, NEW i \in 1..Len(b), ~Settled(b, i)
  PROVE  Record!Values(b, i) = Record!Collected(b, i + 1, Len(b))
<1>1. Len(b) \in Nat /\ i \in Nat
  BY LinesAre
<1>2. \A j \in (i + 1)..Len(b) : ~StopsAt(b, j)
  BY DEF Settled
<1>3. /\ b[i].value = Record!Empty /\ Len(b) + 1 \in (i + 1)..(Len(b) + 1)
      /\ Len(b) + 1 > Len(b) /\ Len(b) + 1 - 1 = Len(b)
  BY <1>1 DEF Settled
<1>4. Record!Values(b, i) = Record!Collected(b, i + 1, Len(b) + 1 - 1)
  BY <1>2, <1>3, UnderIs
<1> QED
  BY <1>3, <1>4

(* A settled field stays what it is. *)
LEMMA SettledStays ==
  ASSUME NEW b \in Described, NEW x \in Record!Line, NEW i \in 1..Len(b), Settled(b, i)
  PROVE  /\ Settled(Append(b, x), i)
         /\ Record!Values(Append(b, x), i) = Record!Values(b, i)
<1>1. PICK c : c = Append(b, x)
  OBVIOUS
<1>2. /\ c \in Described /\ Len(c) = Len(b) + 1 /\ Len(b) \in Nat /\ i \in Nat
      /\ \A j \in 1..Len(b) : c[j] = b[j]
  BY <1>1, LineAdded, LinesAre
<1>3. /\ c[i] = b[i] /\ i \in 1..Len(c)
      /\ \A j \in (i + 1)..Len(b) : c[j] = b[j] /\ j \in (i + 1)..Len(c)
  BY <1>2
<1>4. CASE b[i].value # Record!Empty
  BY <1>1, <1>3, <1>4, BesideIs DEF Settled
<1>5. CASE b[i].value = Record!Empty
  <2>1. PICK j \in (i + 1)..Len(b) : StopsAt(b, j)
    BY <1>5 DEF Settled
  <2>2. PICK e \in (i + 1)..Len(b) : StopsAt(b, e) /\ \A n \in (i + 1)..(e - 1) : ~StopsAt(b, n)
    BY <2>1, EndFound
  <2>3. /\ \A n \in (i + 1)..(e - 1) : n \in (i + 1)..Len(b)
        /\ e \in Nat /\ e \in (i + 1)..(Len(b) + 1) /\ e \in (i + 1)..(Len(c) + 1)
        /\ i + 1 \in Nat /\ e - 1 \in Nat
    BY <1>2, <2>2
  <2>4. StopsAt(c, e) /\ \A n \in (i + 1)..(e - 1) : ~StopsAt(c, n)
    BY <1>3, <2>2, <2>3 DEF StopsAt
  <2>5. Record!Values(c, i) = Record!Collected(c, i + 1, e - 1)
    BY <1>2, <1>3, <1>5, <2>3, <2>4, UnderIs
  <2>6. Record!Values(b, i) = Record!Collected(b, i + 1, e - 1)
    BY <1>5, <2>2, <2>3, UnderIs
  <2>7. Record!Collected(c, i + 1, e - 1) = Record!Collected(b, i + 1, e - 1)
    BY <1>3, <2>3, CollectedSame
  <2>8. Settled(c, i)
    BY <1>3, <2>2, <2>4 DEF Settled
  <2> QED
    BY <1>1, <2>5, <2>6, <2>7, <2>8
<1> QED
  BY <1>4, <1>5

(* A field that is not settled takes a text line and ends at another.      *)
LEMMA OpenMoves ==
  ASSUME NEW b \in Described, NEW x \in Record!Line, NEW i \in 1..Len(b), ~Settled(b, i)
  PROVE  /\ Settled(Append(b, x), i) <=> x.kind # "text"
         /\ Record!Values(Append(b, x), i) =
              IF x.kind = "text" /\ x.value # Record!Empty
              THEN Append(Record!Values(b, i), x.value)
              ELSE Record!Values(b, i)
<1>1. PICK c : c = Append(b, x)
  OBVIOUS
<1>2. PICK top \in Nat : top = Len(b)
  BY LinesAre
<1>3. /\ c \in Described /\ Len(c) = top + 1 /\ i \in Nat /\ i \in 1..top
      /\ \A j \in 1..top : c[j] = b[j]
      /\ c[top + 1] = x /\ c[i] = b[i] /\ i \in 1..Len(c)
  BY <1>1, <1>2, LineAdded, LinesAre
<1>4. \A j \in (i + 1)..top : c[j] = b[j] /\ ~StopsAt(c, j)
  <2>1. \A j \in (i + 1)..top : j \in 1..top /\ ~StopsAt(b, j)
    BY <1>2, <1>3 DEF Settled
  <2> QED
    BY <1>3, <2>1 DEF StopsAt
<1>5. StopsAt(c, top + 1) <=> x.kind # "text"
  BY <1>3, LineIs DEF StopsAt
<1>6. b[i].value = Record!Empty /\ c[i].value = Record!Empty
  BY <1>3 DEF Settled
<1>7. Settled(c, i) <=> x.kind # "text"
  <2>1. \A j \in (i + 1)..Len(c) : j \in (i + 1)..top \/ j = top + 1
    BY <1>3
  <2>2. top + 1 \in (i + 1)..Len(c)
    BY <1>3
  <2> QED
    BY <1>4, <1>5, <1>6, <2>1, <2>2 DEF Settled
<1>8. /\ i + 1 \in Nat /\ i + 1 <= top + 1
      /\ Record!Values(b, i) = Record!Collected(b, i + 1, top)
      /\ Record!Collected(c, i + 1, top) = Record!Collected(b, i + 1, top)
  <2>1. i + 1 \in Nat /\ i + 1 <= top + 1
    BY <1>3
  <2>2. Record!Values(b, i) = Record!Collected(b, i + 1, top)
    BY <1>2, OpenIs
  <2>3. Record!Collected(c, i + 1, top) = Record!Collected(b, i + 1, top)
    BY <1>4, <2>1, CollectedSame
  <2> QED
    BY <2>1, <2>2, <2>3
<1>9. CASE x.kind = "text"
  <2>1. ~Settled(c, i)
    BY <1>7, <1>9
  <2>2. Record!Values(c, i) = Record!Collected(c, i + 1, top + 1)
    BY <1>3, <2>1, OpenIs
  <2>3. Record!Collected(c, i + 1, top + 1) =
          IF c[top + 1].value # Record!Empty
          THEN Append(Record!Collected(c, i + 1, top), c[top + 1].value)
          ELSE Record!Collected(c, i + 1, top)
    BY <1>8, CollectedMore
  <2> QED
    BY <1>1, <1>3, <1>8, <1>9, <2>1, <2>2, <2>3
<1>10. CASE x.kind # "text"
  <2>1. /\ top + 1 \in (i + 1)..(Len(c) + 1) /\ top + 1 - 1 = top
    BY <1>3
  <2>2. \A j \in (i + 1)..(top + 1 - 1) : ~StopsAt(c, j)
    BY <1>4, <2>1
  <2>3. Record!Values(c, i) = Record!Collected(c, i + 1, top + 1 - 1)
    BY <1>3, <1>5, <1>6, <1>10, <2>1, <2>2, UnderIs
  <2> QED
    BY <1>1, <1>7, <1>8, <1>10, <2>1, <2>3
<1> QED
  BY <1>9, <1>10

(* The line that is added has only what stands beside it. *)
LEMMA NewLine ==
  ASSUME NEW b \in Described, NEW x \in Record!Line
  PROVE  /\ Settled(Append(b, x), Len(b) + 1) <=> x.value # Record!Empty
         /\ Record!Values(Append(b, x), Len(b) + 1) =
              IF x.value # Record!Empty THEN <<x.value>> ELSE <<>>
<1>1. PICK c : c = Append(b, x)
  OBVIOUS
<1>2. PICK top \in Nat : top = Len(b)
  BY LinesAre
<1>3. c \in Described /\ Len(c) = top + 1 /\ c[top + 1] = x /\ top + 1 \in 1..Len(c)
  BY <1>1, <1>2, LineAdded
<1>4. \A j \in (top + 1 + 1)..Len(c) : FALSE
  BY <1>3
<1>5. Settled(c, top + 1) <=> x.value # Record!Empty
  BY <1>3, <1>4 DEF Settled
<1>6. CASE x.value # Record!Empty
  BY <1>1, <1>2, <1>3, <1>5, <1>6, BesideIs
<1>7. CASE x.value = Record!Empty
  <2>1. Record!Values(c, top + 1) = Record!Collected(c, top + 1 + 1, top + 1)
    BY <1>3, <1>5, <1>7, OpenIs
  <2>2. Record!Filled(c, top + 1 + 1, top + 1) = {}
    <3>1. \A j \in (top + 1 + 1)..(top + 1) : FALSE
      OBVIOUS
    <3> QED
      BY <3>1 DEF Record!Filled
  <2>3. Record!Collected(c, top + 1 + 1, top + 1) = [k \in 1..0 |-> c[Record!Nth({}, k)].value]
    BY <2>2, CollectedIs, FS_EmptySet
  <2>4. [k \in 1..0 |-> c[Record!Nth({}, k)].value] = <<>>
    OBVIOUS
  <2> QED
    BY <1>1, <1>2, <1>5, <1>7, <2>1, <2>3, <2>4
<1> QED
  BY <1>6, <1>7

(* Above a later label line, every field is settled. *)
LEMMA AboveIsSettled ==
  ASSUME NEW b \in Described, NEW i \in 1..Len(b), NEW j \in 1..Len(b), i < j,
         b[j].kind = "label"
  PROVE  Settled(b, i)
<1>1. j \in (i + 1)..Len(b)
  BY LinesAre
<1>2. StopsAt(b, j)
  BY DEF StopsAt, Record!Stops
<1> QED
  BY <1>1, <1>2 DEF Settled

(* The value of a field is what its first label line with a value has.     *)
LEMMA FieldIs ==
  ASSUME NEW b, NEW label, NEW m \in Valued(b, label), \A i \in Valued(b, label) : m <= i
  PROVE  Record!FieldValue(b, label) = Record!Values(b, m)
<1>1. Valued(b, label) \in SUBSET Nat
  BY DEF Valued, LabelLines
<1>2. Record!Min(Valued(b, label)) = m
  BY <1>1, MinIs
<1>3. Valued(b, label) = {i \in 1..Len(b) : /\ b[i].kind = "label" /\ b[i].label = label
                                             /\ Record!Values(b, i) # <<>>}
  BY DEF Valued, LabelLines
<1> QED
  BY <1>2, <1>3 DEF Record!FieldValue

(* Without a label line that has a value a field has none.                 *)
LEMMA NoField ==
  ASSUME NEW b, NEW label, Valued(b, label) = {}
  PROVE  Record!FieldValue(b, label) = <<>>
<1>3. Valued(b, label) = {i \in 1..Len(b) : /\ b[i].kind = "label" /\ b[i].label = label
                                             /\ Record!Values(b, i) # <<>>}
  BY DEF Valued, LabelLines
<1> QED
  BY <1>3 DEF Record!FieldValue

(* A field that has a value has it from the first label line with one.     *)
LEMMA FirstValued ==
  ASSUME NEW b, NEW label, Valued(b, label) # {}
  PROVE  \E m \in Valued(b, label) :
            /\ \A i \in Valued(b, label) : m <= i
            /\ Record!FieldValue(b, label) = Record!Values(b, m)
            /\ Record!FieldValue(b, label) # <<>>
<1>1. Valued(b, label) \in SUBSET Nat
  BY DEF Valued, LabelLines
<1>2. PICK m \in Valued(b, label) : \A i \in Valued(b, label) : m <= i
  BY <1>1, LeastOf
<1>3. Record!FieldValue(b, label) = Record!Values(b, m) /\ Record!Values(b, m) # <<>>
  BY <1>2, FieldIs DEF Valued
<1> QED
  BY <1>2, <1>3

(* The label lines of a description that gets one line more.               *)
LEMMA LabelLinesGrow ==
  ASSUME NEW b \in Described, NEW x \in Record!Line, NEW label
  PROVE  LabelLines(Append(b, x), label) =
           IF x.kind = "label" /\ x.label = label
           THEN LabelLines(b, label) \cup {Len(b) + 1} ELSE LabelLines(b, label)
<1>1. PICK c : c = Append(b, x)
  OBVIOUS
<1>2. PICK top \in Nat : top = Len(b)
  BY LinesAre
<1>3. Len(c) = top + 1 /\ c[top + 1] = x /\ \A j \in 1..top : c[j] = b[j]
  BY <1>1, <1>2, LineAdded
<1>4. \A j : j \in 1..(top + 1) <=> j \in 1..top \/ j = top + 1
  OBVIOUS
<1>5. \A j : j \in LabelLines(c, label) <=>
               \/ j \in 1..top /\ b[j].kind = "label" /\ b[j].label = label
               \/ j = top + 1 /\ x.kind = "label" /\ x.label = label
  BY <1>3, <1>4 DEF LabelLines
<1>6. \A j : j \in LabelLines(b, label) <=>
               j \in 1..top /\ b[j].kind = "label" /\ b[j].label = label
  BY <1>2 DEF LabelLines
<1> QED
  BY <1>1, <1>2, <1>5, <1>6

(* At most one field of a label is not settled: the last. *)
LEMMA OneOpen ==
  ASSUME NEW b \in Described, NEW label, NEW u \in LabelLines(b, label), ~Settled(b, u),
         NEW i \in LabelLines(b, label), i # u
  PROVE  Settled(b, i)
<1>1. /\ i \in 1..Len(b) /\ u \in 1..Len(b) /\ b[i].kind = "label" /\ b[u].kind = "label"
      /\ i < u \/ u < i
  BY DEF LabelLines
<1> QED
  BY <1>1, AboveIsSettled

-----------------------------------------------------------------------------
(* What a scanner knows about a label once it has read a description.      *)
ScanRight(b, label, s) ==
  /\ s \in [open : BOOLEAN, got : Seq(Record!Value), closed : BOOLEAN]
  /\ s.got = Record!FieldValue(b, label)
  /\ s.closed <=> \E i \in Valued(b, label) : Settled(b, i)
  /\ ~s.closed => (s.open <=> \E i \in LabelLines(b, label) : ~Settled(b, i))

(* A field that is closed stays what it is, whatever comes.                *)
LEMMA ScanClosed ==
  ASSUME NEW b \in Described, NEW x \in Record!Line, NEW label, NEW s,
         ScanRight(b, label, s), s.closed
  PROVE  ScanRight(Append(b, x), label, Record!Scanned(s, x, label))
<1>1. PICK c : c = Append(b, x)
  OBVIOUS
<1>2. PICK i \in Valued(b, label) : Settled(b, i)
  BY DEF ScanRight
<1>3. PICK m \in Valued(b, label) :
        /\ \A j \in Valued(b, label) : m <= j
        /\ Record!FieldValue(b, label) = Record!Values(b, m)
  BY <1>2, FirstValued
<1>4. /\ i \in Nat /\ m \in Nat /\ m <= i /\ m \in 1..Len(b) /\ i \in 1..Len(b)
      /\ m \in LabelLines(b, label) /\ i \in LabelLines(b, label)
      /\ b[m].kind = "label" /\ b[i].kind = "label" /\ Record!Values(b, m) # <<>>
  BY <1>2, <1>3 DEF Valued, LabelLines
<1>5. Settled(b, m)
  <2>1. m = i \/ m < i
    BY <1>4
  <2> QED
    BY <1>2, <1>4, <2>1, AboveIsSettled
<1>6. Settled(c, m) /\ Record!Values(c, m) = Record!Values(b, m)
  BY <1>1, <1>4, <1>5, SettledStays
<1>7. m \in Valued(c, label)
  <2>1. m \in LabelLines(c, label)
    BY <1>1, <1>4, LabelLinesGrow
  <2> QED
    BY <1>4, <1>6, <2>1 DEF Valued
<1>8. ASSUME NEW j \in Valued(c, label)
      PROVE  m <= j
  <2>1. j \in LabelLines(b, label) \/ j = Len(b) + 1
    BY <1>1, LabelLinesGrow DEF Valued
  <2>2. CASE j = Len(b) + 1
    BY <1>4, <2>2, LinesAre
  <2>3. CASE j \in LabelLines(b, label)
    <3>1. j \in 1..Len(b) /\ j \in Nat /\ Record!Values(c, j) # <<>>
      BY <2>3 DEF Valued, LabelLines
    <3>2. CASE j < m
      <4>1. Settled(b, j)
        BY <1>4, <3>1, <3>2, AboveIsSettled
      <4>2. j \in Valued(b, label)
        BY <1>1, <2>3, <3>1, <4>1, SettledStays DEF Valued
      <4> QED
        BY <1>3, <4>2
    <3> QED
      BY <1>4, <3>1, <3>2
  <2> QED
    BY <2>1, <2>2, <2>3
<1>9. Record!FieldValue(c, label) = Record!FieldValue(b, label)
  BY <1>3, <1>6, <1>7, <1>8, FieldIs
<1>10. Record!Scanned(s, x, label) = s
  BY DEF Record!Scanned
<1> QED
  BY <1>1, <1>6, <1>7, <1>9, <1>10 DEF ScanRight

(* A text line adds its value to the field that is open, if one is.        *)
LEMMA ScanText ==
  ASSUME NEW b \in Described, NEW x \in Record!Line, NEW label, NEW s,
         ScanRight(b, label, s), ~s.closed, x.kind = "text"
  PROVE  ScanRight(Append(b, x), label, Record!Scanned(s, x, label))
<1>1. PICK c : c = Append(b, x)
  OBVIOUS
<1>2. LabelLines(c, label) = LabelLines(b, label) /\ LabelLines(b, label) \subseteq 1..Len(b)
  BY <1>1, LabelLinesGrow DEF LabelLines
<1>3. \A i \in LabelLines(b, label) : Settled(c, i) <=> Settled(b, i)
  BY <1>1, <1>2, SettledStays, OpenMoves
<1>4. \A i \in Valued(b, label) : ~Settled(b, i)
  BY DEF ScanRight
<1>5. s \in [open : BOOLEAN, got : Seq(Record!Value), closed : BOOLEAN]
  BY DEF ScanRight
<1>6. CASE s.open /\ x.value # Record!Empty
  <2>1. PICK u \in LabelLines(b, label) : ~Settled(b, u)
    BY <1>6 DEF ScanRight
  <2>2. Valued(b, label) \subseteq {u}
    BY <1>4, <2>1, OneOpen DEF Valued
  <2>3. u \in Nat
    BY <1>2
  <2>4. s.got = Record!Values(b, u)
    <3>1. CASE Record!Values(b, u) = <<>>
      <4>1. Valued(b, label) = {}
        BY <2>2, <3>1 DEF Valued
      <4> QED
        BY <3>1, <4>1, NoField DEF ScanRight
    <3>2. CASE Record!Values(b, u) # <<>>
      <4>1. u \in Valued(b, label) /\ \A i \in Valued(b, label) : u <= i
        BY <2>1, <2>2, <2>3, <3>2 DEF Valued
      <4> QED
        BY <4>1, FieldIs DEF ScanRight
    <3> QED
      BY <3>1, <3>2
  <2>5. Record!Values(c, u) = Append(s.got, x.value)
    BY <1>1, <1>2, <1>6, <2>1, <2>4, OpenMoves
  <2>6. Append(s.got, x.value) \in Seq(Record!Value) /\ Append(s.got, x.value) # <<>>
    <3> DEFINE V == Record!Value
    <3>1. s.got \in Seq(V) /\ x.value \in V
      BY <1>5, LineIs
    <3> HIDE DEF V
    <3>2. Append(s.got, x.value) \in Seq(V) /\ Append(s.got, x.value) # <<>>
      BY <3>1, AppendProperties
    <3> QED
      BY <3>2 DEF V
  <2>7. \A i \in LabelLines(b, label) \ {u} : Record!Values(c, i) = <<>>
    <3> SUFFICES ASSUME NEW i \in LabelLines(b, label), i # u
                 PROVE  Record!Values(c, i) = <<>>
      OBVIOUS
    <3>1. Settled(b, i)
      BY <2>1, OneOpen
    <3>2. Record!Values(b, i) = <<>>
      BY <1>4, <3>1 DEF Valued
    <3> QED
      BY <1>1, <1>2, <3>1, <3>2, SettledStays
  <2>8. Valued(c, label) = {u}
    BY <1>2, <2>1, <2>5, <2>6, <2>7 DEF Valued
  <2>9. Record!FieldValue(c, label) = Append(s.got, x.value)
    <3>1. u \in Valued(c, label) /\ \A i \in Valued(c, label) : u <= i
      BY <2>3, <2>8
    <3> QED
      BY <2>5, <3>1, FieldIs
  <2>10. Record!Scanned(s, x, label) = [s EXCEPT !.got = Append(@, x.value)]
    BY <1>6 DEF Record!Scanned
  <2>11. PICK t : t = Record!Scanned(s, x, label)
    OBVIOUS
  <2>12. /\ t.got = Append(s.got, x.value) /\ t.open /\ ~t.closed
         /\ t \in [open : BOOLEAN, got : Seq(Record!Value), closed : BOOLEAN]
    BY <1>5, <1>6, <2>6, <2>10, <2>11
  <2>13. ~Settled(c, u) /\ u \in LabelLines(c, label)
    BY <1>2, <1>3, <2>1
  <2> QED
    BY <1>1, <2>8, <2>9, <2>11, <2>12, <2>13 DEF ScanRight
<1>7. CASE ~(s.open /\ x.value # Record!Empty)
  <2>1. \A i \in LabelLines(b, label) : Record!Values(c, i) = Record!Values(b, i)
    <3> SUFFICES ASSUME NEW i \in LabelLines(b, label)
                 PROVE  Record!Values(c, i) = Record!Values(b, i)
      OBVIOUS
    <3>1. CASE Settled(b, i)
      BY <1>1, <1>2, <3>1, SettledStays
    <3>2. CASE ~Settled(b, i)
      <4>1. s.open
        BY <3>2 DEF ScanRight
      <4> QED
        BY <1>1, <1>2, <1>7, <3>2, <4>1, OpenMoves
    <3> QED
      BY <3>1, <3>2
  <2>2. Valued(c, label) = Valued(b, label) /\ Valued(b, label) \subseteq LabelLines(b, label)
    BY <1>2, <2>1 DEF Valued
  <2>3. Record!FieldValue(c, label) = Record!FieldValue(b, label)
    <3>1. CASE Valued(b, label) = {}
      BY <2>2, <3>1, NoField
    <3>2. CASE Valued(b, label) # {}
      <4>1. PICK m \in Valued(b, label) :
              /\ \A i \in Valued(b, label) : m <= i
              /\ Record!FieldValue(b, label) = Record!Values(b, m)
        BY <3>2, FirstValued
      <4>2. Record!FieldValue(c, label) = Record!Values(c, m)
        BY <2>2, <4>1, FieldIs
      <4> QED
        BY <2>1, <2>2, <4>1, <4>2
    <3> QED
      BY <3>1, <3>2
  <2>4. Record!Scanned(s, x, label) = s
    BY <1>7 DEF Record!Scanned
  <2> QED
    BY <1>1, <1>2, <1>3, <2>2, <2>3, <2>4 DEF ScanRight
<1> QED
  BY <1>6, <1>7

(* A line of another kind closes a field that has a value; one that has    *)
(* none may open, or take what stands beside its label.                    *)
LEMMA ScanStop ==
  ASSUME NEW b \in Described, NEW x \in Record!Line, NEW label, NEW s,
         ScanRight(b, label, s), ~s.closed, x.kind # "text"
  PROVE  ScanRight(Append(b, x), label, Record!Scanned(s, x, label))
<1>1. PICK c : c = Append(b, x)
  OBVIOUS
<1>2. PICK top \in Nat : top = Len(b)
  BY LinesAre
<1>3. LabelLines(b, label) \subseteq 1..Len(b)
  BY DEF LabelLines
<1>4. \A i \in LabelLines(b, label) : Settled(c, i) /\ Record!Values(c, i) = Record!Values(b, i)
  BY <1>1, <1>3, SettledStays, OpenMoves
<1>5. s \in [open : BOOLEAN, got : Seq(Record!Value), closed : BOOLEAN]
  BY DEF ScanRight
<1>6. CASE s.got # <<>>
  <2>1. Valued(b, label) # {}
    BY <1>6, NoField DEF ScanRight
  <2>2. PICK m \in Valued(b, label) :
          /\ \A i \in Valued(b, label) : m <= i
          /\ Record!FieldValue(b, label) = Record!Values(b, m)
    BY <2>1, FirstValued
  <2>3. m \in LabelLines(b, label) /\ m \in LabelLines(c, label) /\ m \in Valued(c, label)
    BY <1>1, <1>4, LabelLinesGrow DEF Valued
  <2>4. ASSUME NEW i \in Valued(c, label)
        PROVE  m <= i
    <3>1. i \in LabelLines(b, label) \/ i = Len(b) + 1
      BY <1>1, LabelLinesGrow DEF Valued
    <3>2. CASE i = Len(b) + 1
      BY <1>2, <1>3, <2>3, <3>2
    <3>3. CASE i \in LabelLines(b, label)
      <4>1. i \in Valued(b, label)
        BY <1>4, <3>3 DEF Valued
      <4> QED
        BY <2>2, <4>1
    <3> QED
      BY <3>1, <3>2, <3>3
  <2>5. Record!FieldValue(c, label) = Record!FieldValue(b, label)
    BY <1>4, <2>2, <2>3, <2>4, FieldIs
  <2>6. Record!Scanned(s, x, label) = [s EXCEPT !.closed = TRUE]
    BY <1>6 DEF Record!Scanned
  <2>7. PICK t : t = Record!Scanned(s, x, label)
    OBVIOUS
  <2>8. /\ t.got = s.got /\ t.closed
        /\ t \in [open : BOOLEAN, got : Seq(Record!Value), closed : BOOLEAN]
    BY <1>5, <2>6, <2>7
  <2>9. t.got = Record!FieldValue(c, label)
    BY <2>5, <2>8 DEF ScanRight
  <2>10. Settled(c, m)
    BY <1>4, <2>3
  <2> QED
    BY <1>1, <2>3, <2>7, <2>8, <2>9, <2>10 DEF ScanRight
<1>7. CASE s.got = <<>>
  <2>1. Valued(b, label) = {}
    BY <1>7, FirstValued DEF ScanRight
  <2>2. \A i \in LabelLines(b, label) : Record!Values(c, i) = <<>>
    BY <1>4, <2>1 DEF Valued
  <2>3. CASE ~(x.kind = "label" /\ x.label = label)
    <3>1. LabelLines(c, label) = LabelLines(b, label)
      BY <1>1, <2>3, LabelLinesGrow
    <3>2. Valued(c, label) = {}
      BY <2>2, <3>1 DEF Valued
    <3>3. Record!FieldValue(c, label) = <<>>
      BY <3>2, NoField
    <3>4. Record!Scanned(s, x, label) = [s EXCEPT !.open = FALSE]
      BY <1>7, <2>3 DEF Record!Scanned
    <3>5. PICK t : t = Record!Scanned(s, x, label)
      OBVIOUS
    <3>6. /\ t.got = <<>> /\ ~t.closed /\ ~t.open
          /\ t \in [open : BOOLEAN, got : Seq(Record!Value), closed : BOOLEAN]
      BY <1>5, <1>7, <3>4, <3>5
    <3> QED
      BY <1>1, <1>4, <3>1, <3>2, <3>3, <3>5, <3>6 DEF ScanRight
  <2>4. CASE x.kind = "label" /\ x.label = label
    <3>1. LabelLines(c, label) = LabelLines(b, label) \cup {top + 1}
      BY <1>1, <1>2, <2>4, LabelLinesGrow
    <3>2. /\ Settled(c, top + 1) <=> x.value # Record!Empty
          /\ Record!Values(c, top + 1) = IF x.value # Record!Empty THEN <<x.value>> ELSE <<>>
      BY <1>1, <1>2, NewLine
    <3>3. PICK t : t = Record!Scanned(s, x, label)
      OBVIOUS
    <3>4. CASE x.value = Record!Empty
      <4>1. Valued(c, label) = {}
        BY <2>2, <3>1, <3>2, <3>4 DEF Valued
      <4>2. Record!FieldValue(c, label) = <<>>
        BY <4>1, NoField
      <4>3. t = [s EXCEPT !.open = TRUE]
        BY <1>7, <2>4, <3>3, <3>4 DEF Record!Scanned
      <4>4. /\ t.got = <<>> /\ ~t.closed /\ t.open
            /\ t \in [open : BOOLEAN, got : Seq(Record!Value), closed : BOOLEAN]
        BY <1>5, <1>7, <4>3
      <4>5. top + 1 \in LabelLines(c, label) /\ ~Settled(c, top + 1)
        BY <3>1, <3>2, <3>4
      <4> QED
        BY <1>1, <3>3, <4>1, <4>2, <4>4, <4>5 DEF ScanRight
    <3>5. CASE x.value # Record!Empty
      <4>1. Record!Values(c, top + 1) = <<x.value>> /\ <<x.value>> # <<>>
        BY <3>2, <3>5
      <4>2. Valued(c, label) = {top + 1}
        BY <2>2, <3>1, <4>1 DEF Valued
      <4>3. Record!FieldValue(c, label) = <<x.value>>
        <5>1. top + 1 \in Valued(c, label) /\ \A i \in Valued(c, label) : top + 1 <= i
          BY <4>2
        <5> QED
          BY <4>1, <5>1, FieldIs
      <4>4. t = [open |-> FALSE, got |-> <<x.value>>, closed |-> TRUE]
        BY <1>7, <2>4, <3>3, <3>5 DEF Record!Scanned
      <4>5. <<x.value>> \in Seq(Record!Value)
        BY LineIs
      <4>6. /\ t.got = <<x.value>> /\ t.closed
            /\ t \in [open : BOOLEAN, got : Seq(Record!Value), closed : BOOLEAN]
        BY <4>4, <4>5
      <4>7. Settled(c, top + 1)
        BY <3>2, <3>5
      <4> QED
        BY <1>1, <3>3, <4>2, <4>3, <4>6, <4>7 DEF ScanRight
    <3> QED
      BY <3>4, <3>5
  <2> QED
    BY <2>3, <2>4
<1> QED
  BY <1>6, <1>7

(* What the scanner knows it still knows one line on. *)
LEMMA ScanGoesOn ==
  ASSUME NEW b \in Described, NEW x \in Record!Line, NEW label, NEW s, ScanRight(b, label, s)
  PROVE  ScanRight(Append(b, x), label, Record!Scanned(s, x, label))
  BY ScanClosed, ScanText, ScanStop

(* What every reader is before it has read a line. *)
Unread == [open |-> FALSE, got |-> <<>>, closed |-> FALSE]

(* Nothing has been found in an empty description.                         *)
LEMMA ScanStarts ==
  ASSUME NEW label
  PROVE  <<>> \in Described /\ ScanRight(<<>>, label, Unread)
<1>1. <<>> \in Described /\ LabelLines(<<>>, label) = {}
  BY DEF Described, LabelLines
<1>2. Valued(<<>>, label) = {}
  BY <1>1 DEF Valued
<1>3. Record!FieldValue(<<>>, label) = <<>>
  BY <1>2, NoField
<1>4. Unread \in [open : BOOLEAN, got : Seq(Record!Value), closed : BOOLEAN]
  BY DEF Unread
<1> QED
  BY <1>1, <1>2, <1>3, <1>4 DEF ScanRight, Unread

(* Nothing is collected where there is no line. *)
LEMMA NoneCollected ==
  ASSUME NEW b, NEW last \in Nat
  PROVE  Record!Collected(b, last + 1, last) = <<>>
<1>1. \A j \in (last + 1)..last : FALSE
  OBVIOUS
<1>2. Record!Filled(b, last + 1, last) = {}
  BY <1>1 DEF Record!Filled
<1>3. Record!Collected(b, last + 1, last) = [k \in 1..0 |-> b[Record!Nth({}, k)].value]
  BY <1>2, CollectedIs, FS_EmptySet
<1>4. [k \in 1..0 |-> b[Record!Nth({}, k)].value] = <<>>
  OBVIOUS
<1> QED
  BY <1>3, <1>4

(* Two lines are one line and one more.                                    *)
LEMMA TwoLines ==
  ASSUME NEW p, NEW q
  PROVE  <<p, q>> = Append(Append(<<>>, p), q)
<1> DEFINE V == {p, q}
<1>1. <<p>> \in Seq(V) /\ q \in V /\ <<p, q>> \in Seq(V) /\ Len(<<p>>) = 1 /\ Len(<<p, q>>) = 2
  OBVIOUS
<1>2. Append(<<>>, p) = <<p>>
  OBVIOUS
<1> HIDE DEF V
<1>3. /\ Append(<<p>>, q) \in Seq(V) /\ Len(Append(<<p>>, q)) = 2
      /\ Append(<<p>>, q)[1] = p /\ Append(<<p>>, q)[2] = q
  BY <1>1, AppendProperties
<1>4. \A i \in 1..2 : <<p, q>>[i] = Append(<<p>>, q)[i]
  <2>1. \A i \in 1..2 : i = 1 \/ i = 2
    OBVIOUS
  <2> QED
    BY <1>3, <2>1
<1>5. <<p, q>> = Append(<<p>>, q)
  BY <1>1, <1>3, <1>4, SeqEqual
<1> QED
  BY <1>2, <1>5

(* The lines of the template and of the record begun are lines.            *)
LEMMA LineOf ==
  /\ \A label \in Record!Label : Record!Blank(label) \in Record!Line
  /\ \A kind \in {"blank", "box"} : Record!Filler(kind) \in Record!Line
  /\ [Record!Blank("Staging URL") EXCEPT !.value = Url] \in Record!Line
  /\ [Record!Blank("Exercised") EXCEPT !.value = Note] \in Record!Line
  BY DEF Record!Line, Record!Blank, Record!Filler, Record!Value, Record!Label

(* Six lines, and where they stand.                                        *)
LEMMA SixLines ==
  ASSUME NEW V, NEW p \in V, NEW q \in V, NEW r \in V, NEW t \in V, NEW u \in V, NEW v \in V
  PROVE  LET six == <<p, q, r, t, u, v>>
         IN /\ six \in Seq(V) /\ Len(six) = 6 /\ six[1] = p /\ six[2] = q
            /\ six[3] = r /\ six[4] = t /\ six[5] = u /\ six[6] = v
  OBVIOUS

(* The template is lines, all of them without a value, that each end the   *)
(* field above.                                                            *)
LEMMA TemplateIs ==
  /\ Record!Template \in Described /\ Len(Record!Template) = 6
  /\ \A i \in 1..6 : /\ Record!Template[i].value = Record!Empty
                      /\ StopsAt(Record!Template, i) /\ Record!Template[i].kind # "ticked"
                      /\ (Record!Template[i].kind = "label" => i \in 1..4)
<1> DEFINE L == Record!Line
<1>1. /\ Record!Blank("Staging URL") \in L /\ Record!Blank("Exercised") \in L
      /\ Record!Blank("Result") \in L /\ Record!Blank("Tested commit") \in L
      /\ Record!Filler("blank") \in L /\ Record!Filler("box") \in L
  BY LineOf DEF Record!Label
<1> HIDE DEF L
<1>2. /\ Record!Template \in Seq(L) /\ Len(Record!Template) = 6
      /\ Record!Template[1] = Record!Blank("Staging URL")
      /\ Record!Template[2] = Record!Blank("Exercised")
      /\ Record!Template[3] = Record!Blank("Result")
      /\ Record!Template[4] = Record!Blank("Tested commit")
      /\ Record!Template[5] = Record!Filler("blank") /\ Record!Template[6] = Record!Filler("box")
  BY <1>1, SixLines DEF Record!Template
<1>3. \A label : Record!Blank(label).kind = "label" /\ Record!Blank(label).value = Record!Empty
  BY DEF Record!Blank
<1>4. \A kind : Record!Filler(kind).kind = kind /\ Record!Filler(kind).value = Record!Empty
  BY DEF Record!Filler
<1>5. ASSUME NEW i \in 1..6
      PROVE  \/ /\ i \in 1..4 /\ Record!Template[i].kind = "label"
                /\ Record!Template[i].value = Record!Empty
             \/ /\ Record!Template[i].kind \in {"blank", "box"}
                /\ Record!Template[i].value = Record!Empty
  <2>1. i = 1 \/ i = 2 \/ i = 3 \/ i = 4 \/ i = 5 \/ i = 6
    OBVIOUS
  <2>2. CASE i = 5 \/ i = 6
    <3>1. /\ Record!Template[5].kind = "blank" /\ Record!Template[6].kind = "box"
          /\ Record!Template[5].value = Record!Empty /\ Record!Template[6].value = Record!Empty
      BY <1>2, <1>4
    <3> QED
      BY <2>2, <3>1
  <2>3. CASE i = 1 \/ i = 2 \/ i = 3 \/ i = 4
    <3>1. /\ Record!Template[1].kind = "label" /\ Record!Template[1].value = Record!Empty
          /\ Record!Template[2].kind = "label" /\ Record!Template[2].value = Record!Empty
          /\ Record!Template[3].kind = "label" /\ Record!Template[3].value = Record!Empty
          /\ Record!Template[4].kind = "label" /\ Record!Template[4].value = Record!Empty
      BY <1>2, <1>3
    <3> QED
      BY <2>3, <3>1
  <2> QED
    BY <2>1, <2>2, <2>3
<1>6. ASSUME NEW i \in 1..6
      PROVE  /\ Record!Template[i].value = Record!Empty
             /\ StopsAt(Record!Template, i) /\ Record!Template[i].kind # "ticked"
             /\ (Record!Template[i].kind = "label" => i \in 1..4)
  BY <1>5 DEF StopsAt, Record!Stops
<1> QED
  BY <1>2, <1>6 DEF Described, L

(* A scanner that has read the template stands where it began. *)
LEMMA TemplateLeavesNothing ==
  ASSUME NEW label
  PROVE  ScanRight(Record!Template, label, Unread)
<1>1. PICK b \in Described : b = Record!Template
  BY TemplateIs
<1>2. /\ Len(b) = 6
      /\ \A i \in 1..6 : /\ b[i].value = Record!Empty /\ StopsAt(b, i)
                          /\ (b[i].kind = "label" => i \in 1..4)
  BY <1>1, TemplateIs
<1>3. ASSUME NEW i \in 1..4
      PROVE  Record!Values(b, i) = <<>> /\ Settled(b, i)
  <2>1. /\ i \in Nat /\ i \in 1..Len(b) /\ i \in 1..6 /\ i + 1 \in 1..6 /\ i + 1 \in (i + 1)..Len(b)
        /\ i + 1 \in (i + 1)..(Len(b) + 1) /\ i + 1 - 1 = i
    BY <1>2
  <2>2. \A j \in (i + 1)..(i + 1 - 1) : FALSE
    BY <2>1
  <2>3. b[i].value = Record!Empty /\ StopsAt(b, i + 1)
    <3>1. \A n \in 1..6 : b[n].value = Record!Empty /\ StopsAt(b, n)
      BY <1>2
    <3> QED
      BY <2>1, <3>1
  <2>4. Record!Values(b, i) = Record!Collected(b, i + 1, i + 1 - 1)
    BY <2>1, <2>2, <2>3, UnderIs
  <2>5. Record!Values(b, i) = <<>>
    BY <2>1, <2>4, NoneCollected
  <2>6. Settled(b, i)
    BY <2>1, <2>3 DEF Settled
  <2> QED
    BY <2>5, <2>6
<1>4. LabelLines(b, label) \subseteq 1..4
  <2>1. \A i \in 1..6 : b[i].kind = "label" => i \in 1..4
    BY <1>2
  <2> QED
    BY <1>2, <2>1 DEF LabelLines
<1>5. Valued(b, label) = {}
  BY <1>3, <1>4 DEF Valued
<1>6. Record!FieldValue(b, label) = <<>>
  BY <1>5, NoField
<1>7. Unread \in [open : BOOLEAN, got : Seq(Record!Value), closed : BOOLEAN]
  BY DEF Unread
<1>8. \A i \in LabelLines(b, label) : Settled(b, i)
  BY <1>3, <1>4
<1> QED
  BY <1>1, <1>5, <1>6, <1>7, <1>8 DEF ScanRight, Unread

(* Joining, line by line. *)
LEMMA JoinedLine ==
  ASSUME NEW p \in Described, NEW b \in Described, NEW x \in Record!Line
  PROVE  /\ p \o b \in Described
         /\ p \o Append(b, x) = Append(p \o b, x)
<1> DEFINE L == Record!Line
<1>1. p \in Seq(L) /\ b \in Seq(L) /\ x \in L
  BY DEF Described
<1> HIDE DEF L
<1>2. p \o b \in Seq(L) /\ <<x>> \in Seq(L)
  BY <1>1, ConcatProperties
<1>3. Append(b, x) = b \o <<x>> /\ Append(p \o b, x) = (p \o b) \o <<x>>
  BY <1>1, <1>2, AppendIsConcat
<1>4. (p \o b) \o <<x>> = p \o (b \o <<x>>)
  BY <1>1, <1>2, ConcatAssociative
<1> QED
  BY <1>2, <1>3, <1>4 DEF Described, L

(* Lines without a tick add none. *)
LEMMA NoTick ==
  ASSUME NEW p \in Described, NEW b \in Described, \A i \in 1..Len(p) : p[i].kind # "ticked"
  PROVE  (\E i \in 1..Len(p \o b) : (p \o b)[i].kind = "ticked")
            <=> \E i \in 1..Len(b) : b[i].kind = "ticked"
<1> DEFINE L == Record!Line
<1>1. p \in Seq(L) /\ b \in Seq(L)
  BY DEF Described
<1> HIDE DEF L
<1>2. PICK c : c = p \o b
  OBVIOUS
<1>3. /\ Len(c) = Len(p) + Len(b)
      /\ \A i \in 1..Len(p) + Len(b) : c[i] = IF i <= Len(p) THEN p[i] ELSE b[i - Len(p)]
  BY <1>1, <1>2, ConcatProperties
<1>4. Len(p) \in Nat /\ Len(b) \in Nat
  BY LinesAre
<1>5. ASSUME NEW i \in 1..Len(b)
      PROVE  i + Len(p) \in 1..Len(c) /\ c[i + Len(p)] = b[i]
  <2>1. i + Len(p) \in 1..Len(p) + Len(b) /\ ~(i + Len(p) <= Len(p)) /\ i + Len(p) - Len(p) = i
    BY <1>4
  <2> QED
    BY <1>3, <2>1
<1>6. ASSUME NEW i \in 1..Len(c), c[i].kind = "ticked"
      PROVE  \E j \in 1..Len(b) : b[j].kind = "ticked"
  <2>1. CASE i <= Len(p)
    <3>1. i \in 1..Len(p) /\ c[i] = p[i]
      BY <1>3, <1>4, <2>1
    <3> QED
      BY <1>6, <3>1
  <2>2. CASE ~(i <= Len(p))
    <3>1. i - Len(p) \in 1..Len(b) /\ c[i] = b[i - Len(p)]
      BY <1>3, <1>4, <2>2
    <3> QED
      BY <1>6, <3>1
  <2> QED
    BY <2>1, <2>2
<1> QED
  BY <1>2, <1>5, <1>6

-----------------------------------------------------------------------------
(* The inductive invariant of the scan. *)

Rest == Record!Begun
Whole == Record!Template \o Record!Begun

RecordInv ==
  /\ body \in Described
  /\ \A label \in Record!Label :
       /\ ScanRight(body, label, scan[label])
       /\ \E s : ScanRight(Rest \o body, label, s) /\ ScanRight(Whole \o body, label, s)

(* The record begun reads the same below the template and alone.           *)
LEMMA BegunIs ==
  /\ Rest \in Described /\ Whole \in Described
  /\ \A label : \E s : ScanRight(Rest, label, s) /\ ScanRight(Whole, label, s)
<1>1. PICK p \in Record!Line, q \in Record!Line : Record!Begun = <<p, q>>
  BY LineOf DEF Record!Begun
<1>2. Rest = Append(Append(<<>>, p), q) /\ Rest \in Described
  <2>1. <<>> \in Described /\ Append(<<>>, p) \in Described
    BY LineAdded, ScanStarts
  <2>2. Append(Append(<<>>, p), q) \in Described
    BY <2>1, LineAdded
  <2> QED
    BY <1>1, <2>2, TwoLines DEF Rest
<1>3. PICK t \in Described : t = Record!Template
  BY TemplateIs
<1>4. /\ Whole = Append(Append(t, p), q) /\ Whole \in Described
      /\ Append(<<>>, p) \in Described /\ Append(t, p) \in Described /\ <<>> \in Described
  <2>1. /\ <<>> \in Described /\ Append(<<>>, p) \in Described /\ Append(t, p) \in Described
        /\ Append(Append(t, p), q) \in Described
    <3>1. <<>> \in Described /\ Append(<<>>, p) \in Described /\ Append(t, p) \in Described
      BY LineAdded, ScanStarts
    <3> QED
      BY <3>1, LineAdded
  <2>2. t \o <<>> = t
    <3> DEFINE L == Record!Line
    <3>1. t \in Seq(L)
      BY DEF Described
    <3> HIDE DEF L
    <3> QED
      BY <3>1, ConcatEmptySeq
  <2>3. t \o Append(<<>>, p) = Append(t, p)
    BY <2>1, <2>2, JoinedLine
  <2>4. t \o Append(Append(<<>>, p), q) = Append(Append(t, p), q)
    BY <2>1, <2>3, JoinedLine
  <2> QED
    BY <1>2, <1>3, <2>1, <2>4 DEF Whole, Rest
<1>5. ASSUME NEW label
      PROVE  \E s : ScanRight(Rest, label, s) /\ ScanRight(Whole, label, s)
  <2>1. ScanRight(<<>>, label, Unread) /\ ScanRight(t, label, Unread)
    BY <1>3, ScanStarts, TemplateLeavesNothing
  <2>2. PICK s : /\ ScanRight(Append(<<>>, p), label, s) /\ ScanRight(Append(t, p), label, s)
    BY <1>4, <2>1, ScanGoesOn
  <2>3. PICK u : /\ ScanRight(Append(Append(<<>>, p), q), label, u)
                 /\ ScanRight(Append(Append(t, p), q), label, u)
    BY <1>4, <2>2, ScanGoesOn
  <2> QED
    BY <1>2, <1>4, <2>3
<1> QED
  BY <1>2, <1>4, <1>5

(* The invariant holds of an empty description.                            *)
LEMMA RecordStarts == Record!Init => RecordInv
<1> SUFFICES ASSUME Record!Init PROVE RecordInv
  OBVIOUS
<1>1. body = <<>> /\ \A label \in Record!Label : scan[label] = Unread
  BY DEF Record!Init, Unread
<1>2. Rest \o <<>> = Rest /\ Whole \o <<>> = Whole
  <2> DEFINE L == Record!Line
  <2>1. Rest \in Seq(L) /\ Whole \in Seq(L)
    BY BegunIs DEF Described
  <2> HIDE DEF L
  <2> QED
    BY <2>1, ConcatEmptySeq
<1>3. \A label : ScanRight(<<>>, label, Unread)
  BY ScanStarts
<1> QED
  BY <1>1, <1>2, <1>3, ScanStarts, BegunIs DEF RecordInv

(* A line that is typed keeps the invariant.                               *)
LEMMA RecordTypes ==
  ASSUME RecordInv, NEW x \in Lines, Record!Type(x)
  PROVE  RecordInv'
<1>1. x \in Record!Line
  BY LinesAssumption
<1>2. /\ body \in Described /\ body' = Append(body, x)
      /\ \A label \in Record!Label : scan'[label] = Record!Scanned(scan[label], x, label)
  BY DEF RecordInv, Record!Type
<1>3. body' \in Described
  BY <1>1, <1>2, LineAdded
<1>4. /\ Rest \o body' = Append(Rest \o body, x) /\ Whole \o body' = Append(Whole \o body, x)
      /\ Rest \o body \in Described /\ Whole \o body \in Described
  BY <1>1, <1>2, BegunIs, JoinedLine
<1>5. ASSUME NEW label \in Record!Label
      PROVE  /\ ScanRight(body', label, scan'[label])
             /\ \E s : ScanRight(Rest \o body', label, s) /\ ScanRight(Whole \o body', label, s)
  <2>1. ScanRight(body', label, scan'[label])
    BY <1>1, <1>2, ScanGoesOn DEF RecordInv
  <2>2. PICK s : ScanRight(Rest \o body, label, s) /\ ScanRight(Whole \o body, label, s)
    BY DEF RecordInv
  <2>3. /\ ScanRight(Rest \o body', label, Record!Scanned(s, x, label))
        /\ ScanRight(Whole \o body', label, Record!Scanned(s, x, label))
    BY <1>1, <1>4, <2>2, ScanGoesOn
  <2> QED
    BY <2>1, <2>3
<1> QED
  BY <1>3, <1>5 DEF RecordInv, Rest, Whole, Record!Begun, Record!Template

RecordStep ==
  \/ \E x \in Lines : Record!Type(x)
  \/ UNCHANGED recordVars

(* The invariant of the scan is inductive.                                 *)
LEMMA RecordKept == RecordInv /\ RecordStep => RecordInv'
<1> SUFFICES ASSUME RecordInv, RecordStep PROVE RecordInv'
  OBVIOUS
<1>1. CASE \E x \in Lines : Record!Type(x)
  BY <1>1, RecordTypes
<1>2. CASE UNCHANGED recordVars
  BY <1>2 DEF recordVars, RecordInv, Rest, Whole, Record!Begun, Record!Template
<1> QED
  BY <1>1, <1>2 DEF RecordStep

(* It holds in every behaviour of the readers.                             *)
LEMMA ReadersScan == ReadersSpec => []RecordInv
<1>1. ReadersInit => RecordInv
  BY RecordStarts DEF ReadersInit
<1>2. [ReadersNext]_<<reader, vars, visitorVars, scanVars, recordVars>> => RecordStep
  BY DEF ReadersNext, RecordStep, Record!Next
<1> QED
  BY <1>1, <1>2, RecordKept, PTL DEF ReadersSpec

(* The value branch_flow_guard.py finds for a field, looking ahead from    *)
(* each of its labels, is what one pass over the description finds.        *)
THEOREM FieldsAsScanned == ReadersSpec => []ScanAgrees
<1>1. RecordInv => ScanAgrees
  BY DEF RecordInv, ScanRight, ScanAgrees, Record!ScanAgrees
<1> QED
  BY <1>1, ReadersScan, PTL

(* A blank template left above a filled copy hides none of its fields:     *)
(* branch_flow_guard.py takes the same tested commit from both.            *)
THEOREM TemplateHidesNothing == ReadersSpec => []TemplateIsHarmless
<1>1. RecordInv => TemplateIsHarmless
  <2> SUFFICES ASSUME RecordInv
               PROVE  Record!TestedCommit(Record!Template \o Record!Begun \o body)
                        = Record!TestedCommit(Record!Begun \o body)
    BY DEF TemplateIsHarmless, Record!TemplateIsHarmless
  <2>1. PICK a, c : a = Record!Begun \o body /\ c = Record!Template \o Record!Begun \o body
    OBVIOUS
  <2>2. \A label \in Record!Label : Record!FieldValue(c, label) = Record!FieldValue(a, label)
    BY <2>1 DEF RecordInv, ScanRight, Rest, Whole
  <2>3. (\E i \in 1..Len(c) : c[i].kind = "ticked") <=> \E i \in 1..Len(a) : a[i].kind = "ticked"
    <3>1. /\ Record!Template \in Described /\ Record!Begun \in Described /\ body \in Described
          /\ \A i \in 1..Len(Record!Template) : Record!Template[i].kind # "ticked"
      BY TemplateIs, BegunIs DEF RecordInv, Rest
    <3>2. a \in Described
      <4> DEFINE L == Record!Line
      <4>1. Record!Begun \in Seq(L) /\ body \in Seq(L)
        BY <3>1 DEF Described
      <4> HIDE DEF L
      <4>2. a \in Seq(L)
        BY <2>1, <4>1, ConcatProperties
      <4> QED
        BY <4>2 DEF Described, L
    <3>3. c = Record!Template \o a
      <4> DEFINE L == Record!Line
      <4>1. Record!Template \in Seq(L) /\ Record!Begun \in Seq(L) /\ body \in Seq(L)
        BY <3>1 DEF Described
      <4> HIDE DEF L
      <4> QED
        BY <2>1, <4>1, ConcatAssociative
    <3> QED
      BY <3>1, <3>2, <3>3, NoTick
  <2>4. {"Staging URL", "Exercised", "Result", "Tested commit"} \subseteq Record!Label
    BY DEF Record!Label
  <2> QED
    BY <2>1, <2>2, <2>3, <2>4 DEF Record!TestedCommit
<1> QED
  BY <1>1, ReadersScan, PTL

-----------------------------------------------------------------------------
(* The bracket scans: the text of a collateral, character by character.    *)

(* The characters the text is put together from. *)
LEMMA Characters ==
  /\ Scan!Quote # Scan!Backslash
  /\ \A c \in {"{", "}", "[", "]", ":", ",", "C", "L", "T", "Q"} :
       c # Scan!Quote /\ c # Scan!Backslash
  BY DEF Scan!Quote, Scan!Backslash

Char ==
  STRING \cup {"{", "}", "[", "]", ":", ",", "C", "L", "T", "Q", Scan!Quote}

(* What the text r is, by the parts it is put together from. *)
IsJoin(r, s, t) ==
  /\ r \in Seq(Char) /\ Len(r) = Len(s) + Len(t)
  /\ \A i \in 1..Len(s) : r[i] = s[i]
  /\ \A i \in 1..Len(t) : r[Len(s) + i] = t[i]

IsBetween(r, a, s, b) ==
  /\ r \in Seq(Char) /\ Len(r) = Len(s) + 2
  /\ r[1] = a /\ r[Len(s) + 2] = b
  /\ \A i \in 1..Len(s) : r[1 + i] = s[i]

IsMember(r, name, v) ==
  /\ r \in Seq(Char) /\ Len(r) = Len(v) + 4
  /\ r[1] = Scan!Quote /\ r[2] = name /\ r[3] = Scan!Quote /\ r[4] = ":"
  /\ \A i \in 1..Len(v) : r[4 + i] = v[i]

IsDocument(r, c) ==
  /\ r \in Seq(Char) /\ Len(r) = Len(c) + 8
  /\ r[1] = "{" /\ r[2] = Scan!Quote /\ r[3] = "L" /\ r[4] = Scan!Quote
  /\ r[5] = ":" /\ r[6] = "["
  /\ \A i \in 1..Len(c) : r[6 + i] = c[i]
  /\ r[Len(c) + 7] = "]" /\ r[Len(c) + 8] = "}"

(* Two texts after each other. *)
LEMMA TwoTexts ==
  ASSUME NEW s \in Seq(Char), NEW t \in Seq(Char)
  PROVE  IsJoin(s \o t, s, t)
  BY DEF IsJoin

(* A text of one character. *)
LEMMA OneChar ==
  ASSUME NEW c \in Char
  PROVE  <<c>> \in Seq(Char) /\ Len(<<c>>) = 1 /\ <<c>>[1] = c
  OBVIOUS

(* Text between two characters. *)
LEMMA BetweenTwo ==
  ASSUME NEW a \in Char, NEW b \in Char, NEW s \in Seq(Char)
  PROVE  IsBetween(<<a>> \o s \o <<b>>, a, s, b)
<1>1. PICK x : x = <<a>>
  OBVIOUS
<1>2. PICK y : y = <<b>>
  OBVIOUS
<1>3. PICK h : h = x \o s
  OBVIOUS
<1>4. PICK r : r = h \o y
  OBVIOUS
<1>5. x \in Seq(Char) /\ Len(x) = 1 /\ x[1] = a /\ y \in Seq(Char) /\ Len(y) = 1 /\ y[1] = b
  BY <1>1, <1>2, OneChar
<1>6. IsJoin(h, x, s)
  BY <1>3, <1>5, TwoTexts
<1>7. h \in Seq(Char)
  BY <1>6 DEF IsJoin
<1>8. IsJoin(r, h, y)
  BY <1>4, <1>5, <1>7, TwoTexts
<1>9. PICK n \in Nat : n = Len(s)
  OBVIOUS
<1>10. /\ Len(h) = 1 + n
       /\ h[1] = a /\ \A i \in 1..n : h[1 + i] = s[i]
  BY <1>5, <1>6, <1>9 DEF IsJoin
<1>11. /\ r \in Seq(Char) /\ Len(r) = 1 + n + 1
       /\ r[1 + n + 1] = b
       /\ \A i \in 1..(1 + n) : r[i] = h[i]
  BY <1>5, <1>8, <1>10 DEF IsJoin
<1>12. r[1] = a /\ \A i \in 1..n : r[1 + i] = s[i]
  <2>1. \A i \in 1..n : 1 + i \in 1..(1 + n)
    OBVIOUS
  <2> QED
    BY <1>10, <1>11, <2>1
<1>13. IsBetween(r, a, s, b)
  BY <1>9, <1>11, <1>12 DEF IsBetween
<1> QED
  BY <1>1, <1>2, <1>3, <1>4, <1>13

(* A string in quotes. *)
LEMMA StrIs ==
  ASSUME NEW s \in Seq(Char)
  PROVE  IsBetween(Scan!Str(s), Scan!Quote, s, Scan!Quote)
<1>1. Scan!Quote \in Char
  BY DEF Char
<1> QED
  BY <1>1, BetweenTwo DEF Scan!Str

(* A member. *)
LEMMA MemberIs ==
  ASSUME NEW name \in Char, NEW v \in Seq(Char)
  PROVE  IsMember(Scan!Member(name, v), name, v)
<1>1. PICK k : k = <<Scan!Quote, name, Scan!Quote, ":">>
  OBVIOUS
<1>2. /\ k \in Seq(Char) /\ Len(k) = 4
      /\ k[1] = Scan!Quote /\ k[2] = name /\ k[3] = Scan!Quote /\ k[4] = ":"
  <2>1. Scan!Quote \in Char /\ ":" \in Char
    BY DEF Char
  <2> QED
    BY <1>1, <2>1
<1>3. PICK r : r = k \o v
  OBVIOUS
<1>4. IsJoin(r, k, v)
  BY <1>2, <1>3, TwoTexts
<1>5. /\ r \in Seq(Char) /\ Len(r) = 4 + Len(v)
      /\ \A i \in 1..4 : r[i] = k[i]
      /\ \A i \in 1..Len(v) : r[4 + i] = v[i]
  BY <1>2, <1>4 DEF IsJoin
<1>6. IsMember(r, name, v)
  BY <1>2, <1>5 DEF IsMember
<1> QED
  BY <1>1, <1>3, <1>6 DEF Scan!Member

(* A document with its levels. *)
LEMMA DocumentIs ==
  ASSUME NEW c \in Seq(Char)
  PROVE  IsDocument(Scan!Document(c), c)
<1>0. PICK n \in Nat : n = Len(c)
  OBVIOUS
<1>1. PICK a : a = <<"[">> \o c \o <<"]">>
  OBVIOUS
<1>2. PICK m : m = Scan!Member("L", a)
  OBVIOUS
<1>3. PICK r : r = <<"{">> \o m \o <<"}">>
  OBVIOUS
<1>4. "[" \in Char /\ "]" \in Char /\ "{" \in Char /\ "}" \in Char /\ "L" \in Char
  BY DEF Char
<1>5. IsBetween(a, "[", c, "]")
  BY <1>1, <1>4, BetweenTwo
<1>6. /\ a \in Seq(Char) /\ Len(a) = n + 2 /\ a[1] = "[" /\ a[n + 2] = "]"
      /\ \A i \in 1..n : a[1 + i] = c[i]
  BY <1>0, <1>5 DEF IsBetween
<1>7. IsMember(m, "L", a)
  BY <1>2, <1>4, <1>6, MemberIs
<1>8. /\ m \in Seq(Char) /\ Len(m) = n + 6
      /\ m[1] = Scan!Quote /\ m[2] = "L" /\ m[3] = Scan!Quote /\ m[4] = ":"
      /\ \A i \in 1..(n + 2) : m[4 + i] = a[i]
  BY <1>6, <1>7 DEF IsMember
<1>9. IsBetween(r, "{", m, "}")
  BY <1>3, <1>4, <1>8, BetweenTwo
<1>10. /\ r \in Seq(Char) /\ Len(r) = n + 8
       /\ r[1] = "{" /\ r[n + 8] = "}"
       /\ \A i \in 1..(n + 6) : r[1 + i] = m[i]
  <2>1. Len(m) = n + 6
    BY <1>8
  <2>2. /\ r \in Seq(Char) /\ Len(r) = Len(m) + 2 /\ r[1] = "{"
        /\ r[Len(m) + 2] = "}" /\ \A i \in 1..Len(m) : r[1 + i] = m[i]
    BY <1>9 DEF IsBetween
  <2>3. (n + 6) + 2 = n + 8
    OBVIOUS
  <2> QED
    BY <2>1, <2>2, <2>3
<1>11. m[5] = "[" /\ m[n + 6] = "]" /\ \A i \in 1..n : m[5 + i] = c[i]
  <2>1. m[4 + 1] = a[1] /\ m[4 + (n + 2)] = a[n + 2]
    BY <1>8
  <2>2. ASSUME NEW i \in 1..n PROVE m[5 + i] = c[i]
    <3>1. 1 + i \in 1..(n + 2) /\ 4 + (1 + i) = 5 + i
      OBVIOUS
    <3> QED
      BY <1>6, <1>8, <3>1
  <2> QED
    BY <1>6, <2>1, <2>2
<1>12. /\ r[2] = m[1] /\ r[3] = m[2] /\ r[4] = m[3] /\ r[5] = m[4]
       /\ r[6] = m[5] /\ r[n + 7] = m[n + 6]
  <2>1. /\ 1 \in 1..(n + 6) /\ 2 \in 1..(n + 6) /\ 3 \in 1..(n + 6) /\ 4 \in 1..(n + 6)
        /\ 5 \in 1..(n + 6) /\ n + 6 \in 1..(n + 6)
    OBVIOUS
  <2>2. /\ r[1 + 1] = m[1] /\ r[1 + 2] = m[2] /\ r[1 + 3] = m[3] /\ r[1 + 4] = m[4]
        /\ r[1 + 5] = m[5] /\ r[1 + (n + 6)] = m[n + 6]
    BY <1>10, <2>1
  <2> QED
    BY <2>2
<1>13. ASSUME NEW i \in 1..n PROVE r[6 + i] = c[i]
  <2>1. 5 + i \in 1..(n + 6) /\ 1 + (5 + i) = 6 + i
    OBVIOUS
  <2> QED
    BY <1>10, <1>11, <2>1
<1>14. IsDocument(r, c)
  BY <1>0, <1>8, <1>10, <1>11, <1>12, <1>13 DEF IsDocument
<1> QED
  BY <1>1, <1>2, <1>3, <1>14 DEF Scan!Document

(* s stands in r after the first k characters. *)
Carries(r, k, s) == \A i \in 1..Len(s) : r[k + i] = s[i]

(* What stands in a part stands in the whole. *)
LEMMA Deeper ==
  ASSUME NEW r, NEW k \in Nat, NEW s, NEW j \in Nat, NEW u, Len(s) \in Nat, Len(u) \in Nat,
         Carries(r, k, s), Carries(s, j, u), j + Len(u) <= Len(s), NEW m, m = k + j
  PROVE  Carries(r, m, u)
<1>1. ASSUME NEW i \in 1..Len(u) PROVE r[m + i] = u[i]
  <2>1. j + i \in 1..Len(s) /\ k + (j + i) = m + i
    OBVIOUS
  <2>2. r[k + (j + i)] = s[j + i] /\ s[j + i] = u[i]
    BY <2>1 DEF Carries
  <2> QED
    BY <2>1, <2>2
<1> QED
  BY <1>1 DEF Carries

(* The text of a collateral, its three members in their places. *)
IsLaidOut(r, d) ==
  /\ r \in Seq(Char) /\ Len(r) = Len(d.chain) + Len(d.tcbLevels) + Len(d.qeLevels) + 34
  /\ r[1] = "{" /\ Carries(r, 1, Scan!Member("C", Scan!Str(d.chain)))
  /\ r[Len(d.chain) + 8] = ","
  /\ Carries(r, Len(d.chain) + 8, Scan!Member("T", Scan!Document(d.tcbLevels)))
  /\ r[Len(d.chain) + Len(d.tcbLevels) + 21] = ","
  /\ Carries(r, Len(d.chain) + Len(d.tcbLevels) + 21,
             Scan!Member("Q", Scan!Document(d.qeLevels)))

Doc == [chain : Seq(Char), tcbLevels : Seq(Char), qeLevels : Seq(Char)]

(* The parts of the text and their lengths. *)
LEMMA PartsAre ==
  ASSUME NEW d \in Doc
  PROVE  /\ IsMember(Scan!Member("C", Scan!Str(d.chain)), "C", Scan!Str(d.chain))
         /\ IsMember(Scan!Member("T", Scan!Document(d.tcbLevels)), "T", Scan!Document(d.tcbLevels))
         /\ IsMember(Scan!Member("Q", Scan!Document(d.qeLevels)), "Q", Scan!Document(d.qeLevels))
         /\ Len(Scan!Member("C", Scan!Str(d.chain))) = Len(d.chain) + 6
         /\ Len(Scan!Member("T", Scan!Document(d.tcbLevels))) = Len(d.tcbLevels) + 12
         /\ Len(Scan!Member("Q", Scan!Document(d.qeLevels))) = Len(d.qeLevels) + 12
<1>1. d.chain \in Seq(Char) /\ d.tcbLevels \in Seq(Char) /\ d.qeLevels \in Seq(Char)
  BY DEF Doc
<1>2. "C" \in Char /\ "T" \in Char /\ "Q" \in Char
  BY DEF Char
<1>3. PICK c : c = Scan!Str(d.chain)
  OBVIOUS
<1>4. PICK t : t = Scan!Document(d.tcbLevels)
  OBVIOUS
<1>5. PICK q : q = Scan!Document(d.qeLevels)
  OBVIOUS
<1>6. c \in Seq(Char) /\ Len(c) = Len(d.chain) + 2
  BY <1>1, <1>3, StrIs DEF IsBetween
<1>7. t \in Seq(Char) /\ Len(t) = Len(d.tcbLevels) + 8
  BY <1>1, <1>4, DocumentIs DEF IsDocument
<1>8. q \in Seq(Char) /\ Len(q) = Len(d.qeLevels) + 8
  BY <1>1, <1>5, DocumentIs DEF IsDocument
<1>9. IsMember(Scan!Member("C", c), "C", c) /\ IsMember(Scan!Member("T", t), "T", t)
      /\ IsMember(Scan!Member("Q", q), "Q", q)
  BY <1>2, <1>6, <1>7, <1>8, MemberIs
<1>10. Len(d.chain) \in Nat /\ Len(d.tcbLevels) \in Nat /\ Len(d.qeLevels) \in Nat
  BY <1>1
<1>11. /\ Len(Scan!Member("C", c)) = Len(c) + 4 /\ Len(Scan!Member("T", t)) = Len(t) + 4
       /\ Len(Scan!Member("Q", q)) = Len(q) + 4
  BY <1>9 DEF IsMember
<1>12. /\ Len(Scan!Member("C", c)) = Len(d.chain) + 6
       /\ Len(Scan!Member("T", t)) = Len(d.tcbLevels) + 12
       /\ Len(Scan!Member("Q", q)) = Len(d.qeLevels) + 12
  BY <1>6, <1>7, <1>8, <1>10, <1>11
<1> QED
  BY <1>3, <1>4, <1>5, <1>9, <1>12

(* So a collateral has its three members in their places. *)
LEMMA CollateralIs ==
  ASSUME NEW d \in Doc
  PROVE  IsLaidOut(Scan!Collateral(d), d)
<1>1. PICK x \in Nat : x = Len(d.chain)
  BY DEF Doc
<1>2. PICK y \in Nat : y = Len(d.tcbLevels)
  BY DEF Doc
<1>3. PICK z \in Nat : z = Len(d.qeLevels)
  BY DEF Doc
<1>4. PICK c : c = Scan!Member("C", Scan!Str(d.chain))
  OBVIOUS
<1>5. PICK t : t = Scan!Member("T", Scan!Document(d.tcbLevels))
  OBVIOUS
<1>6. PICK q : q = Scan!Member("Q", Scan!Document(d.qeLevels))
  OBVIOUS
<1>7. PICK a : a = <<"{">> \o c \o <<",">>
  OBVIOUS
<1>8. PICK b : b = a \o t
  OBVIOUS
<1>9. PICK e : e = <<",">>
  OBVIOUS
<1>10. PICK f : f = b \o e
  OBVIOUS
<1>11. PICK g : g = f \o q
  OBVIOUS
<1>12. PICK h : h = <<"}">>
  OBVIOUS
<1>13. PICK r : r = g \o h
  OBVIOUS
<1>14. Scan!Collateral(d) = r
  BY <1>4, <1>5, <1>6, <1>7, <1>8, <1>9, <1>10, <1>11, <1>12, <1>13 DEF Scan!Collateral
<1>15. /\ c \in Seq(Char) /\ t \in Seq(Char) /\ q \in Seq(Char)
       /\ Len(c) = x + 6 /\ Len(t) = y + 12 /\ Len(q) = z + 12
  BY <1>1, <1>2, <1>3, <1>4, <1>5, <1>6, PartsAre DEF IsMember
<1>16. "{" \in Char /\ "," \in Char /\ "}" \in Char
  BY DEF Char
<1>17. e \in Seq(Char) /\ Len(e) = 1 /\ e[1] = "," /\ h \in Seq(Char) /\ Len(h) = 1
  BY <1>9, <1>12, <1>16, OneChar
<1>18. IsBetween(a, "{", c, ",")
  BY <1>7, <1>15, <1>16, BetweenTwo
<1>19. a \in Seq(Char) /\ Len(a) = x + 8 /\ a[1] = "{" /\ a[x + 8] = "," /\ Carries(a, 1, c)
  <2>1. Len(c) = x + 6 /\ (x + 6) + 2 = x + 8
    BY <1>15
  <2>2. /\ a \in Seq(Char) /\ Len(a) = Len(c) + 2 /\ a[1] = "{" /\ a[Len(c) + 2] = ","
        /\ Carries(a, 1, c)
    BY <1>18 DEF IsBetween, Carries
  <2> QED
    BY <2>1, <2>2
<1>20. IsJoin(b, a, t)
  BY <1>8, <1>15, <1>19, TwoTexts
<1>21. b \in Seq(Char) /\ Len(b) = x + y + 20 /\ Carries(b, 0, a) /\ Carries(b, x + 8, t)
  <2>1. Len(a) = x + 8 /\ Len(t) = y + 12
    BY <1>15, <1>19
  <2> QED
    BY <1>20, <2>1 DEF IsJoin, Carries
<1>22. IsJoin(f, b, e)
  BY <1>10, <1>17, <1>21, TwoTexts
<1>23. f \in Seq(Char) /\ Len(f) = x + y + 21 /\ Carries(f, 0, b) /\ f[x + y + 21] = ","
  <2>1. Len(b) = x + y + 20 /\ Len(e) = 1 /\ e[1] = ","
    BY <1>17, <1>21
  <2>2. /\ f \in Seq(Char) /\ Len(f) = Len(b) + Len(e)
        /\ \A i \in 1..Len(b) : f[i] = b[i]
        /\ \A i \in 1..Len(e) : f[Len(b) + i] = e[i]
    BY <1>22 DEF IsJoin
  <2>3. 1 \in 1..Len(e) /\ (x + y + 20) + 1 = x + y + 21
    <3>1. Len(e) = 1
      BY <2>1
    <3>2. (x + y + 20) + 1 = x + y + 21
      OBVIOUS
    <3> QED
      BY <3>1, <3>2
  <2>4. f[Len(b) + 1] = e[1]
    BY <2>2, <2>3
  <2>5. Carries(f, 0, b)
    <3>1. \A i \in 1..Len(b) : 0 + i = i
      <4>1. \A i \in Int : 0 + i = i
        OBVIOUS
      <4> QED
        BY <4>1
    <3> QED
      BY <2>2, <3>1 DEF Carries
  <2> QED
    BY <2>1, <2>2, <2>3, <2>4, <2>5
<1>24. IsJoin(g, f, q)
  BY <1>11, <1>15, <1>23, TwoTexts
<1>25. g \in Seq(Char) /\ Len(g) = x + y + z + 33 /\ Carries(g, 0, f) /\ Carries(g, x + y + 21, q)
  <2>1. Len(f) = x + y + 21 /\ Len(q) = z + 12
    BY <1>15, <1>23
  <2> QED
    BY <1>24, <2>1 DEF IsJoin, Carries
<1>26. IsJoin(r, g, h)
  BY <1>13, <1>17, <1>25, TwoTexts
<1>27. r \in Seq(Char) /\ Len(r) = x + y + z + 34 /\ Carries(r, 0, g)
  <2>1. Len(g) = x + y + z + 33 /\ Len(h) = 1
    BY <1>17, <1>25
  <2> QED
    BY <1>26, <2>1 DEF IsJoin, Carries
<1>28. /\ Len(a) = x + 8 /\ Len(b) = x + y + 20 /\ Len(c) = x + 6 /\ Len(f) = x + y + 21
       /\ Len(g) = x + y + z + 33 /\ Len(q) = z + 12 /\ Len(t) = y + 12
  BY <1>15, <1>19, <1>21, <1>23, <1>25
<1>29. Carries(r, 0, f) /\ Carries(r, x + y + 21, q)
  <2>1. /\ Len(g) \in Nat /\ Len(q) \in Nat /\ Len(f) \in Nat /\ x + y + 21 \in Nat
        /\ x + y + 21 + Len(q) <= Len(g) /\ 0 + Len(f) <= Len(g)
        /\ 0 = 0 + 0 /\ x + y + 21 = 0 + (x + y + 21)
    BY <1>28
  <2>2. Carries(r, 0, f)
    BY <1>25, <1>27, <2>1, Deeper
  <2>3. PICK k \in Nat : k = x + y + 21
    BY <2>1
  <2>4. Carries(r, k, q)
    <3>1. Carries(g, k, q) /\ Carries(r, 0, g) /\ k = 0 + k /\ k + Len(q) <= Len(g)
      BY <1>25, <1>27, <2>1, <2>3
    <3> QED
      BY <2>1, <3>1, Deeper
  <2> QED
    BY <2>2, <2>3, <2>4
<1>30. Carries(r, 0, b)
  <2>1. /\ Len(f) \in Nat /\ Len(b) \in Nat /\ 0 + Len(b) <= Len(f)
        /\ 0 = 0 + 0
    BY <1>28
  <2> QED
    BY <1>23, <1>29, <2>1, Deeper
<1>31. Carries(r, x + 8, t) /\ Carries(r, 0, a)
  <2>1. /\ Len(b) \in Nat /\ Len(t) \in Nat /\ Len(a) \in Nat /\ x + 8 \in Nat
        /\ (x + 8) + Len(t) <= Len(b) /\ 0 + Len(a) <= Len(b)
        /\ 0 = 0 + 0 /\ x + 8 = 0 + (x + 8)
    BY <1>28
  <2>2. Carries(r, x + 8, t)
    BY <1>21, <1>30, <2>1, Deeper
  <2>3. Carries(r, 0, a)
    BY <1>21, <1>30, <2>1, Deeper
  <2> QED
    BY <2>2, <2>3
<1>32. Carries(r, 1, c) /\ r[1] = "{" /\ r[x + 8] = ","
  <2>1. /\ Len(a) \in Nat /\ Len(c) \in Nat /\ 1 + Len(c) <= Len(a)
        /\ 1 = 0 + 1
    BY <1>28
  <2>2. Carries(r, 1, c)
    BY <1>19, <1>31, <2>1, Deeper
  <2>3. 1 \in 1..Len(a) /\ x + 8 \in 1..Len(a) /\ 0 + 1 = 1 /\ 0 + (x + 8) = x + 8
    BY <1>28
  <2>4. r[0 + 1] = a[1] /\ r[0 + (x + 8)] = a[x + 8]
    BY <1>31, <2>3 DEF Carries
  <2>5. a[1] = "{" /\ a[x + 8] = ","
    BY <1>19
  <2> QED
    BY <2>2, <2>3, <2>4, <2>5
<1>33. r[x + y + 21] = ","
  <2>1. x + y + 21 \in 1..Len(f) /\ 0 + (x + y + 21) = x + y + 21
    BY <1>28
  <2>2. r[0 + (x + y + 21)] = f[x + y + 21]
    BY <1>29, <2>1 DEF Carries
  <2>3. f[x + y + 21] = ","
    BY <1>23
  <2> QED
    BY <2>1, <2>2, <2>3
<1>34. IsLaidOut(r, d)
  BY <1>1, <1>2, <1>3, <1>4, <1>5, <1>6, <1>27, <1>29, <1>31, <1>32, <1>33 DEF IsLaidOut
<1> QED
  BY <1>14, <1>34

-----------------------------------------------------------------------------
(* JSON by itself: the modes and the open brackets of a text.              *)

(* Every text has a reading: one character more continues the one before.  *)
LEMMA ReadingThere ==
  ASSUME NEW s, Len(s) \in Nat
  PROVE  \E f : f = [i \in 0..Len(s) |-> IF i = 0 THEN "outside" ELSE Scan!After(f[i - 1], s[i])]
<1> DEFINE Reads(f, n) ==
             f = [i \in 0..n |-> IF i = 0 THEN "outside" ELSE Scan!After(f[i - 1], s[i])]
           Unreached == {n \in Nat : ~\E f : Reads(f, n)}
<1>1. ASSUME NEW n \in Nat, n # 0, NEW f, Reads(f, n - 1) PROVE \E g : Reads(g, n)
  <2>1. PICK g : g = [i \in 0..n |-> IF i = n THEN Scan!After(f[n - 1], s[n]) ELSE f[i]]
    OBVIOUS
  <2>2. ASSUME NEW i \in 0..n
        PROVE  g[i] = IF i = 0 THEN "outside" ELSE Scan!After(g[i - 1], s[i])
    <3>1. CASE i = n
      <4>1. i # 0 /\ n - 1 \in 0..n /\ n - 1 # n
        BY <1>1, <3>1
      <4>2. g[n - 1] = f[n - 1]
        BY <2>1, <4>1
      <4> QED
        BY <2>1, <3>1, <4>1, <4>2
    <3>2. CASE i # n
      <4>1. i \in 0..(n - 1)
        BY <1>1, <3>2
      <4>2. f[i] = IF i = 0 THEN "outside" ELSE Scan!After(f[i - 1], s[i])
        BY <1>1, <4>1
      <4>3. i # 0 => i - 1 \in 0..n /\ i - 1 # n
        BY <4>1
      <4>4. g[i] = f[i] /\ (i # 0 => g[i - 1] = f[i - 1])
        BY <2>1, <3>2, <4>3
      <4> QED
        BY <4>2, <4>4
    <3> QED
      BY <3>1, <3>2
  <2>3. Reads(g, n)
    <3>1. PICK h : h = [i \in 0..n |-> IF i = 0 THEN "outside" ELSE Scan!After(g[i - 1], s[i])]
      OBVIOUS
    <3>2. DOMAIN g = 0..n /\ DOMAIN h = 0..n /\ \A i \in 0..n : g[i] = h[i]
      BY <2>1, <2>2, <3>1
    <3>3. g = [i \in 0..n |-> g[i]]
      BY <2>1
    <3>4. h = [i \in 0..n |-> h[i]]
      BY <3>1
    <3>5. g = h
      BY <3>2, <3>3, <3>4
    <3> QED
      BY <3>1, <3>5
  <2> QED
    BY <2>3
<1>2. \E f : Reads(f, 0)
  <2>1. PICK f : f = [i \in 0..0 |-> "outside"]
    OBVIOUS
  <2>2. f = [i \in 0..0 |-> IF i = 0 THEN "outside" ELSE Scan!After(f[i - 1], s[i])]
    BY <2>1
  <2> QED
    BY <2>2
<1>3. Unreached = {}
  <2>1. SUFFICES ASSUME Unreached # {} PROVE FALSE
    OBVIOUS
  <2>2. PICK n \in Unreached : \A l \in Unreached : n <= l
    BY <2>1, LeastOf
  <2>3. n \in Nat /\ n # 0 /\ n - 1 \in Nat /\ n - 1 \notin Unreached
    <3>1. n \in Nat /\ 0 \notin Unreached
      BY <1>2
    <3> HIDE DEF Unreached
    <3>2. n # 0
      BY <2>2, <3>1
    <3> QED
      BY <2>2, <3>1, <3>2
  <2>4. PICK f : Reads(f, n - 1)
    BY <2>3
  <2> QED
    BY <1>1, <2>2, <2>3, <2>4
<1> QED
  BY <1>3

(* The mode after each character follows from the one before. *)
LEMMA ModesAre ==
  ASSUME NEW s, Len(s) \in Nat
  PROVE  /\ Scan!Modes(s)[0] = "outside"
         /\ \A i \in 1..Len(s) : Scan!Modes(s)[i] = Scan!After(Scan!Modes(s)[i - 1], s[i])
<1>1. PICK f : f = [i \in 0..Len(s) |->
                      IF i = 0 THEN "outside" ELSE Scan!After(f[i - 1], s[i])]
  BY ReadingThere
<1>2. PICK m : m = Scan!Modes(s)
  OBVIOUS
<1>3. m = [i \in 0..Len(s) |-> IF i = 0 THEN "outside" ELSE Scan!After(m[i - 1], s[i])]
  BY <1>1, <1>2 DEF Scan!Modes
<1>4. 0 \in 0..Len(s) /\ \A i \in 1..Len(s) : i \in 0..Len(s) /\ i # 0
  OBVIOUS
<1>5. m[0] = "outside" /\ \A i \in 1..Len(s) : m[i] = Scan!After(m[i - 1], s[i])
  BY <1>3, <1>4
<1> QED
  BY <1>2, <1>5

(* And a count. *)
LEMMA CountThere ==
  ASSUME NEW s, Len(s) \in Nat, NEW b
  PROVE  \E f : f = [i \in 0..Len(s) |->
                       IF i = 0 THEN 0
                       ELSE f[i - 1] + Scan!Opens(Scan!Modes(s)[i - 1], s[i], b)]
<1> DEFINE More(i) == Scan!Opens(Scan!Modes(s)[i - 1], s[i], b)
           Counts(f, n) == f = [i \in 0..n |-> IF i = 0 THEN 0 ELSE f[i - 1] + More(i)]
           Uncounted == {n \in Nat : ~\E f : Counts(f, n)}
<1> HIDE DEF More
<1>1. ASSUME NEW n \in Nat, n # 0, NEW f, Counts(f, n - 1) PROVE \E g : Counts(g, n)
  <2>1. PICK g : g = [i \in 0..n |-> IF i = n THEN f[n - 1] + More(n) ELSE f[i]]
    OBVIOUS
  <2>2. ASSUME NEW i \in 0..n
        PROVE  g[i] = IF i = 0 THEN 0 ELSE g[i - 1] + More(i)
    <3>1. CASE i = n
      <4>1. i # 0 /\ n - 1 \in 0..n /\ n - 1 # n
        BY <1>1, <3>1
      <4>2. g[n - 1] = f[n - 1]
        BY <2>1, <4>1
      <4> QED
        BY <2>1, <3>1, <4>1, <4>2
    <3>2. CASE i # n
      <4>1. i \in 0..(n - 1)
        BY <1>1, <3>2
      <4>2. f[i] = IF i = 0 THEN 0 ELSE f[i - 1] + More(i)
        BY <1>1, <4>1
      <4>3. i # 0 => i - 1 \in 0..n /\ i - 1 # n
        BY <4>1
      <4>4. g[i] = f[i] /\ (i # 0 => g[i - 1] = f[i - 1])
        BY <2>1, <3>2, <4>3
      <4> QED
        BY <4>2, <4>4
    <3> QED
      BY <3>1, <3>2
  <2>3. Counts(g, n)
    <3>1. PICK h : h = [i \in 0..n |-> IF i = 0 THEN 0 ELSE g[i - 1] + More(i)]
      OBVIOUS
    <3>2. DOMAIN g = 0..n /\ DOMAIN h = 0..n /\ \A i \in 0..n : g[i] = h[i]
      BY <2>1, <2>2, <3>1
    <3>3. g = [i \in 0..n |-> g[i]]
      BY <2>1
    <3>4. h = [i \in 0..n |-> h[i]]
      BY <3>1
    <3>5. g = h
      BY <3>2, <3>3, <3>4
    <3> QED
      BY <3>1, <3>5
  <2> QED
    BY <2>3
<1>2. \E f : Counts(f, 0)
  <2>1. PICK f : f = [i \in 0..0 |-> 0]
    OBVIOUS
  <2>2. f = [i \in 0..0 |-> IF i = 0 THEN 0 ELSE f[i - 1] + More(i)]
    BY <2>1
  <2> QED
    BY <2>2
<1>3. Uncounted = {}
  <2>1. SUFFICES ASSUME Uncounted # {} PROVE FALSE
    OBVIOUS
  <2>2. PICK n \in Uncounted : \A l \in Uncounted : n <= l
    BY <2>1, LeastOf
  <2>3. n \in Nat /\ n # 0 /\ n - 1 \in Nat /\ n - 1 \notin Uncounted
    <3>1. n \in Nat /\ 0 \notin Uncounted
      BY <1>2
    <3> HIDE DEF Uncounted
    <3>2. n # 0
      BY <2>2, <3>1
    <3> QED
      BY <2>2, <3>1, <3>2
  <2>4. PICK f : Counts(f, n - 1)
    BY <2>3
  <2> QED
    BY <1>1, <2>2, <2>3, <2>4
<1> QED
  BY <1>3 DEF More

(* The open brackets after each character follow from the ones before. *)
LEMMA OpenedIs ==
  ASSUME NEW s, Len(s) \in Nat, NEW b, NEW d, d = Scan!Opened(s, b)
  PROVE  /\ d[0] = 0
         /\ \A i \in 1..Len(s) : d[i] = d[i - 1] + Scan!Opens(Scan!Modes(s)[i - 1], s[i], b)
         /\ \A i \in 0..Len(s) : d[i] \in Int
<1>1. PICK f : f = [i \in 0..Len(s) |->
                      IF i = 0 THEN 0
                      ELSE f[i - 1] + Scan!Opens(Scan!Modes(s)[i - 1], s[i], b)]
  BY CountThere
<1>2. d = [i \in 0..Len(s) |->
             IF i = 0 THEN 0 ELSE d[i - 1] + Scan!Opens(Scan!Modes(s)[i - 1], s[i], b)]
  BY <1>1 DEF Scan!Opened
<1>3. 0 \in 0..Len(s) /\ \A i \in 1..Len(s) : i \in 0..Len(s) /\ i # 0
  OBVIOUS
<1>4. /\ d[0] = 0
      /\ \A i \in 1..Len(s) : d[i] = d[i - 1] + Scan!Opens(Scan!Modes(s)[i - 1], s[i], b)
  BY <1>2, <1>3
<1>5. \A m, c : Scan!Opens(m, c, b) \in Int
  BY DEF Scan!Opens
<1> DEFINE Odd == {i \in 0..Len(s) : d[i] \notin Int}
<1>6. Odd = {}
  <2>1. SUFFICES ASSUME Odd # {} PROVE FALSE
    OBVIOUS
  <2>2. Odd \in SUBSET Nat
    OBVIOUS
  <2>3. PICK n \in Odd : \A l \in Odd : n <= l
    BY <2>1, <2>2, LeastOf
  <2>4. n # 0 /\ n \in 1..Len(s) /\ n - 1 \in 0..Len(s) /\ n - 1 \notin Odd
    BY <1>4, <2>3
  <2>5. d[n - 1] \in Int
    BY <2>4
  <2> QED
    BY <1>4, <1>5, <2>3, <2>4, <2>5
<1> QED
  BY <1>4, <1>6

-----------------------------------------------------------------------------
(* The values: brackets that are closed by the last character.             *)

(* Modes and open brackets after each character of w. *)
Marks(w, b, m, d) ==
  /\ m[0] = "outside" /\ d[0] = 0
  /\ \A i \in 1..Len(w) : /\ m[i] = Scan!After(m[i - 1], w[i])
                          /\ d[i] = d[i - 1] + Scan!Opens(m[i - 1], w[i], b)
  /\ \A i \in 0..Len(w) : d[i] \in Int

(* The first bracket of w is closed by its last one, and not before.       *)
IsValue(w, b) ==
  \E m, d : /\ Marks(w, b, m, d)
            /\ \A i \in 1..(Len(w) - 1) : d[i] >= 1
            /\ d[Len(w)] = 0

(* What single characters do. *)
LEMMA Punctuation ==
  /\ Scan!After("outside", "{") = "outside" /\ Scan!After("outside", "}") = "outside"
  /\ Scan!After("outside", "[") = "outside" /\ Scan!After("outside", "]") = "outside"
  /\ Scan!After("outside", ":") = "outside"
  /\ Scan!After("outside", Scan!Quote) = "inside"
  /\ Scan!After("inside", "L") = "inside"
  /\ Scan!After("inside", Scan!Quote) = "outside"
  BY Characters DEF Scan!After

(* What the brackets of an array do to its count. *)
LEMMA SquareBrackets ==
  ASSUME NEW b, b = Scan!Brackets["levels"]
  PROVE  /\ Scan!Opens("outside", "[", b) = 1 /\ Scan!Opens("outside", "]", b) = -1
         /\ b[1] = "[" /\ b[2] = "]"
<1>1. b = <<"[", "]">>
  BY DEF Scan!Brackets
<1> QED
  BY <1>1 DEF Scan!Opens

(* What a document's brackets do to its count, and the characters around its *)
(* name do not. *)
LEMMA CurlyBrackets ==
  ASSUME NEW by \in {"tcb_info", "qe_identity"}, NEW b, b = Scan!Brackets[by]
  PROVE  /\ Scan!Opens("outside", "{", b) = 1 /\ Scan!Opens("outside", "}", b) = -1
         /\ Scan!Opens("outside", "[", b) = 0 /\ Scan!Opens("outside", "]", b) = 0
         /\ Scan!Opens("outside", ":", b) = 0 /\ Scan!Opens("outside", Scan!Quote, b) = 0
         /\ Scan!Opens("inside", "L", b) = 0 /\ Scan!Opens("inside", Scan!Quote, b) = 0
         /\ b[1] = "{" /\ b[2] = "}"
<1>1. b = <<"{", "}">>
  <2>1. CASE by = "tcb_info"
    BY <2>1 DEF Scan!Brackets
  <2>2. CASE by = "qe_identity"
    BY <2>2 DEF Scan!Brackets
  <2> QED
    BY <2>1, <2>2
<1>2. b[1] = "{" /\ b[2] = "}"
  <2>1. PICK x : x = <<"{", "}">>
    OBVIOUS
  <2>2. x[1] = "{" /\ x[2] = "}"
    BY <2>1
  <2> QED
    BY <1>1, <2>1, <2>2
<1>3. Scan!Quote # "{" /\ Scan!Quote # "}"
  BY Characters
<1> QED
  BY <1>2, <1>3 DEF Scan!Opens

(* The marks of the content of an array. *)
LEMMA ContentMarks ==
  ASSUME NEW c, Len(c) \in Nat, Scan!Closed(c), NEW by \in Scan!Scanner,
         NEW b, b = Scan!Brackets[by]
  PROVE  \E m, d : /\ Marks(c, b, m, d)
                   /\ m[Len(c)] = "outside" /\ d[Len(c)] = 0
                   /\ \A i \in 0..Len(c) : d[i] >= 0
<1>1. PICK m : m = Scan!Modes(c)
  OBVIOUS
<1>2. PICK d : d = Scan!Opened(c, b)
  OBVIOUS
<1>3. m[Len(c)] = "outside" /\ d[Len(c)] = 0 /\ \A i \in 0..Len(c) : d[i] >= 0
  BY <1>1, <1>2 DEF Scan!Closed
<1>4. m[0] = "outside" /\ \A i \in 1..Len(c) : m[i] = Scan!After(m[i - 1], c[i])
  BY <1>1, ModesAre
<1>5. /\ d[0] = 0
      /\ \A i \in 1..Len(c) : d[i] = d[i - 1] + Scan!Opens(m[i - 1], c[i], b)
      /\ \A i \in 0..Len(c) : d[i] \in Int
  BY <1>1, <1>2, OpenedIs
<1>6. Marks(c, b, m, d)
  BY <1>4, <1>5 DEF Marks
<1> QED
  BY <1>3, <1>6

(* An array with such content is a value. *)
LEMMA ArrayIsValue ==
  ASSUME NEW c, Len(c) \in Nat, Scan!Closed(c), NEW w, IsBetween(w, "[", c, "]"),
         NEW b, b = Scan!Brackets["levels"]
  PROVE  IsValue(w, b)
<1>1. "levels" \in Scan!Scanner
  BY DEF Scan!Scanner, Scan!Name
<1>2. PICK mc, dc : /\ Marks(c, b, mc, dc)
                    /\ mc[Len(c)] = "outside" /\ dc[Len(c)] = 0
                    /\ \A i \in 0..Len(c) : dc[i] >= 0
  BY <1>1, ContentMarks
<1>3. PICK n \in Nat : n = Len(c)
  OBVIOUS
<1>4. PICK m : m = [i \in 0..(n + 2) |-> IF i \in 1..(n + 1) THEN mc[i - 1] ELSE "outside"]
  OBVIOUS
<1>5. PICK d : d = [i \in 0..(n + 2) |-> IF i \in 1..(n + 1) THEN 1 + dc[i - 1] ELSE 0]
  OBVIOUS
<1>6. /\ Len(w) = n + 2 /\ w[1] = "[" /\ w[n + 2] = "]"
      /\ \A i \in 1..n : w[1 + i] = c[i]
  BY <1>3 DEF IsBetween
<1>7. /\ mc[0] = "outside" /\ dc[0] = 0 /\ mc[n] = "outside" /\ dc[n] = 0
      /\ \A i \in 1..n : /\ mc[i] = Scan!After(mc[i - 1], c[i])
                         /\ dc[i] = dc[i - 1] + Scan!Opens(mc[i - 1], c[i], b)
      /\ \A i \in 0..n : dc[i] \in Int /\ dc[i] >= 0
  BY <1>2, <1>3 DEF Marks
<1>8. /\ m[0] = "outside" /\ d[0] = 0 /\ m[1] = "outside" /\ d[1] = 1
      /\ m[n + 1] = "outside" /\ d[n + 1] = 1 /\ m[n + 2] = "outside" /\ d[n + 2] = 0
      /\ \A i \in 0..n : m[1 + i] = mc[i] /\ d[1 + i] = 1 + dc[i]
  <2>1. ASSUME NEW i \in 0..n PROVE m[1 + i] = mc[i] /\ d[1 + i] = 1 + dc[i]
    <3>1. 1 + i \in 0..(n + 2) /\ 1 + i \in 1..(n + 1) /\ (1 + i) - 1 = i
      OBVIOUS
    <3> QED
      BY <1>4, <1>5, <3>1
  <2>2. 0 \in 0..n /\ n \in 0..n /\ 1 + 0 = 1 /\ 1 + n = n + 1
    OBVIOUS
  <2>3. /\ 0 \in 0..(n + 2) /\ 0 \notin 1..(n + 1)
        /\ n + 2 \in 0..(n + 2) /\ n + 2 \notin 1..(n + 1)
    OBVIOUS
  <2>4. m[0] = "outside" /\ d[0] = 0 /\ m[n + 2] = "outside" /\ d[n + 2] = 0
    BY <1>4, <1>5, <2>3
  <2>5. m[1 + 0] = mc[0] /\ d[1 + 0] = 1 + dc[0] /\ m[1 + n] = mc[n] /\ d[1 + n] = 1 + dc[n]
    BY <2>1, <2>2
  <2> QED
    BY <1>7, <2>1, <2>2, <2>4, <2>5
<1>9. ASSUME NEW i \in 1..(n + 2)
      PROVE  m[i] = Scan!After(m[i - 1], w[i]) /\ d[i] = d[i - 1] + Scan!Opens(m[i - 1], w[i], b)
  <2>0. Scan!Opens("outside", "[", b) = 1 /\ Scan!Opens("outside", "]", b) = -1
    BY SquareBrackets
  <2>1. CASE i = 1
    <3>1. i - 1 = 0
      BY <2>1
    <3>2. m[i] = "outside" /\ m[i - 1] = "outside" /\ d[i] = 1 /\ d[i - 1] = 0 /\ w[i] = "["
      BY <1>6, <1>8, <2>1, <3>1
    <3>3. /\ Scan!After(m[i - 1], w[i]) = Scan!After("outside", "[")
          /\ Scan!Opens(m[i - 1], w[i], b) = Scan!Opens("outside", "[", b)
      BY <3>2
    <3>4. Scan!After("outside", "[") = "outside" /\ Scan!Opens("outside", "[", b) = 1
      BY <2>0, Punctuation
    <3>5. m[i] = Scan!After(m[i - 1], w[i]) /\ Scan!Opens(m[i - 1], w[i], b) = 1
      BY <3>2, <3>3, <3>4
    <3> QED
      BY <3>2, <3>5
  <2>2. CASE i = n + 2
    <3>1. i - 1 = n + 1
      BY <2>2
    <3>2. m[i] = "outside" /\ m[i - 1] = "outside" /\ d[i] = 0 /\ d[i - 1] = 1 /\ w[i] = "]"
      BY <1>6, <1>8, <2>2, <3>1
    <3>3. /\ Scan!After(m[i - 1], w[i]) = Scan!After("outside", "]")
          /\ Scan!Opens(m[i - 1], w[i], b) = Scan!Opens("outside", "]", b)
      BY <3>2
    <3>4. Scan!After("outside", "]") = "outside" /\ Scan!Opens("outside", "]", b) = -1
      BY <2>0, Punctuation
    <3>5. m[i] = Scan!After(m[i - 1], w[i]) /\ Scan!Opens(m[i - 1], w[i], b) = -1
      BY <3>2, <3>3, <3>4
    <3> QED
      BY <3>2, <3>5
  <2>3. CASE i # 1 /\ i # n + 2
    <3>1. PICK j \in 1..n : i = 1 + j
      <4>1. i - 1 \in 1..n /\ i = 1 + (i - 1)
        BY <2>3
      <4> QED
        BY <4>1
    <3>2. i - 1 = 1 + (j - 1) /\ j - 1 \in 0..n /\ j \in 0..n
      BY <3>1
    <3>3. /\ m[i] = mc[j] /\ d[i] = 1 + dc[j] /\ m[i - 1] = mc[j - 1] /\ d[i - 1] = 1 + dc[j - 1]
          /\ w[i] = c[j]
      BY <1>6, <1>8, <3>1, <3>2
    <3>4. /\ mc[j] = Scan!After(mc[j - 1], c[j])
          /\ dc[j] = dc[j - 1] + Scan!Opens(mc[j - 1], c[j], b)
      BY <1>7, <3>1
    <3>5. Scan!Opens(mc[j - 1], c[j], b) \in Int
      BY DEF Scan!Opens
    <3>6. dc[j - 1] \in Int
      BY <1>7, <3>2
    <3>7. 1 + dc[j] = (1 + dc[j - 1]) + Scan!Opens(mc[j - 1], c[j], b)
      BY <3>4, <3>5, <3>6
    <3> QED
      BY <3>3, <3>4, <3>7
  <2> QED
    BY <2>1, <2>2, <2>3
<1>10. \A i \in 1..(n + 1) : d[i] \in Int /\ d[i] >= 1
  <2>1. ASSUME NEW i \in 1..(n + 1) PROVE d[i] \in Int /\ d[i] >= 1
    <3>1. i - 1 \in 0..n /\ i = 1 + (i - 1)
      OBVIOUS
    <3>2. d[i] = 1 + dc[i - 1] /\ dc[i - 1] \in Int /\ dc[i - 1] >= 0
      BY <1>7, <1>8, <3>1
    <3> QED
      BY <3>2
  <2> QED
    BY <2>1
<1>11. \A i \in 0..(n + 2) : d[i] \in Int
  <2>1. \A i \in 0..(n + 2) : i = 0 \/ i = n + 2 \/ i \in 1..(n + 1)
    OBVIOUS
  <2> QED
    BY <1>8, <1>10, <2>1
<1>12. Marks(w, b, m, d)
  BY <1>6, <1>8, <1>9, <1>11 DEF Marks
<1>13. /\ \A i \in 1..(Len(w) - 1) : d[i] >= 1
       /\ d[Len(w)] = 0
  <2>1. Len(w) - 1 = n + 1 /\ Len(w) = n + 2
    BY <1>6
  <2> QED
    BY <1>8, <1>10, <2>1
<1> QED
  BY <1>12, <1>13 DEF IsValue

(* So is a document with such levels. *)
LEMMA DocumentIsValue ==
  ASSUME NEW c, Len(c) \in Nat, Scan!Closed(c), NEW w, IsDocument(w, c),
         NEW by \in {"tcb_info", "qe_identity"}, NEW b, b = Scan!Brackets[by]
  PROVE  IsValue(w, b)
<1>1. by \in Scan!Scanner
  BY DEF Scan!Scanner, Scan!Name
<1>2. PICK mc, dc : /\ Marks(c, b, mc, dc)
                    /\ mc[Len(c)] = "outside" /\ dc[Len(c)] = 0
                    /\ \A i \in 0..Len(c) : dc[i] >= 0
  BY <1>1, ContentMarks
<1>3. PICK n \in Nat : n = Len(c)
  OBVIOUS
<1>4. PICK m : m = [i \in 0..(n + 8) |-> IF i \in {2, 3} THEN "inside"
                                         ELSE IF i \in 6..(n + 6) THEN mc[i - 6] ELSE "outside"]
  OBVIOUS
<1>5. PICK d : d = [i \in 0..(n + 8) |-> IF i = 0 \/ i = n + 8 THEN 0
                                         ELSE IF i \in 6..(n + 6) THEN 1 + dc[i - 6] ELSE 1]
  OBVIOUS
<1>6. /\ Len(w) = n + 8 /\ w[1] = "{" /\ w[2] = Scan!Quote /\ w[3] = "L" /\ w[4] = Scan!Quote
      /\ w[5] = ":" /\ w[6] = "[" /\ w[n + 7] = "]" /\ w[n + 8] = "}"
      /\ \A i \in 1..n : w[6 + i] = c[i]
  BY <1>3 DEF IsDocument
<1>7. /\ mc[0] = "outside" /\ dc[0] = 0 /\ mc[n] = "outside" /\ dc[n] = 0
      /\ \A i \in 1..n : /\ mc[i] = Scan!After(mc[i - 1], c[i])
                         /\ dc[i] = dc[i - 1] + Scan!Opens(mc[i - 1], c[i], b)
      /\ \A i \in 0..n : dc[i] \in Int /\ dc[i] >= 0
  BY <1>2, <1>3 DEF Marks
<1>8. \A i \in 0..n : m[6 + i] = mc[i] /\ d[6 + i] = 1 + dc[i]
  <2>1. ASSUME NEW i \in 0..n PROVE m[6 + i] = mc[i] /\ d[6 + i] = 1 + dc[i]
    <3>1. /\ 6 + i \in 0..(n + 8) /\ 6 + i \in 6..(n + 6) /\ (6 + i) - 6 = i
          /\ 6 + i \notin {2, 3} /\ 6 + i # 0 /\ 6 + i # n + 8
      OBVIOUS
    <3> QED
      BY <1>4, <1>5, <3>1
  <2> QED
    BY <2>1
<1>9. /\ m[0] = "outside" /\ m[1] = "outside" /\ m[2] = "inside" /\ m[3] = "inside"
      /\ m[4] = "outside" /\ m[5] = "outside" /\ m[6] = "outside" /\ m[n + 6] = "outside"
      /\ m[n + 7] = "outside" /\ m[n + 8] = "outside"
  <2>1. /\ \A i \in {0, 1, 2, 3, 4, 5} : i \in 0..(n + 8) /\ i \notin 6..(n + 6)
        /\ n + 7 \in 0..(n + 8) /\ n + 8 \in 0..(n + 8)
        /\ n + 7 \notin {2, 3} /\ n + 8 \notin {2, 3}
        /\ n + 7 \notin 6..(n + 6) /\ n + 8 \notin 6..(n + 6)
    OBVIOUS
  <2>2. /\ m[0] = "outside" /\ m[1] = "outside" /\ m[2] = "inside" /\ m[3] = "inside"
        /\ m[4] = "outside" /\ m[5] = "outside" /\ m[n + 7] = "outside" /\ m[n + 8] = "outside"
    BY <1>4, <2>1
  <2>3. 0 \in 0..n /\ n \in 0..n /\ 6 + 0 = 6 /\ 6 + n = n + 6
    OBVIOUS
  <2>4. m[6 + 0] = mc[0] /\ m[6 + n] = mc[n]
    BY <1>8, <2>3
  <2> QED
    BY <1>7, <2>2, <2>3, <2>4
<1>10. /\ d[0] = 0 /\ d[1] = 1 /\ d[2] = 1 /\ d[3] = 1 /\ d[4] = 1 /\ d[5] = 1 /\ d[6] = 1
       /\ d[n + 6] = 1 /\ d[n + 7] = 1 /\ d[n + 8] = 0
  <2>1. /\ \A i \in {1, 2, 3, 4, 5} : i \in 0..(n + 8) /\ i \notin 6..(n + 6) /\ i # n + 8 /\ i # 0
        /\ 0 \in 0..(n + 8)
        /\ n + 7 \in 0..(n + 8) /\ n + 8 \in 0..(n + 8) /\ n + 7 # 0 /\ n + 7 # n + 8
        /\ n + 7 \notin 6..(n + 6)
    OBVIOUS
  <2>2. /\ d[0] = 0 /\ d[1] = 1 /\ d[2] = 1 /\ d[3] = 1 /\ d[4] = 1 /\ d[5] = 1
        /\ d[n + 7] = 1 /\ d[n + 8] = 0
    BY <1>5, <2>1
  <2>3. 0 \in 0..n /\ n \in 0..n /\ 6 + 0 = 6 /\ 6 + n = n + 6
    OBVIOUS
  <2>4. d[6 + 0] = 1 + dc[0] /\ d[6 + n] = 1 + dc[n]
    BY <1>8, <2>3
  <2> QED
    BY <1>7, <2>2, <2>3, <2>4
<1>11. ASSUME NEW i \in 1..(n + 8)
       PROVE  m[i] = Scan!After(m[i - 1], w[i]) /\ d[i] = d[i - 1] + Scan!Opens(m[i - 1], w[i], b)
  <2>0. /\ Scan!Opens("outside", "{", b) = 1 /\ Scan!Opens("outside", "}", b) = -1
        /\ Scan!Opens("outside", "[", b) = 0 /\ Scan!Opens("outside", "]", b) = 0
        /\ Scan!Opens("outside", ":", b) = 0 /\ Scan!Opens("outside", Scan!Quote, b) = 0
        /\ Scan!Opens("inside", "L", b) = 0 /\ Scan!Opens("inside", Scan!Quote, b) = 0
    BY CurlyBrackets
  <2>1. CASE i \in {1, 2, 3, 4, 5, 6}
    <3>1. CASE i = 1
      <4>1. i - 1 = 0
        BY <3>1
      <4>2. m[i] = "outside" /\ m[i - 1] = "outside" /\ d[i] = 1 /\ d[i - 1] = 0 /\ w[i] = "{"
        BY <1>6, <1>9, <1>10, <3>1, <4>1
      <4>3. /\ Scan!After(m[i - 1], w[i]) = Scan!After("outside", "{")
            /\ Scan!Opens(m[i - 1], w[i], b) = Scan!Opens("outside", "{", b)
        BY <4>2
      <4>4. Scan!After("outside", "{") = "outside" /\ Scan!Opens("outside", "{", b) = 1
        BY <2>0, Punctuation
      <4>5. m[i] = Scan!After(m[i - 1], w[i]) /\ Scan!Opens(m[i - 1], w[i], b) = 1
        BY <4>2, <4>3, <4>4
      <4>6. d[i - 1] + Scan!Opens(m[i - 1], w[i], b) = 0 + 1
        BY <4>2, <4>5
      <4>7. 0 + 1 = 1
        OBVIOUS
      <4> QED
        BY <4>2, <4>5, <4>6, <4>7
    <3>2. CASE i = 2
      <4>1. i - 1 = 1
        BY <3>2
      <4>2. m[i] = "inside" /\ m[i - 1] = "outside" /\ d[i] = 1 /\ d[i - 1] = 1 /\ w[i] = Scan!Quote
        BY <1>6, <1>9, <1>10, <3>2, <4>1
      <4>3. /\ Scan!After(m[i - 1], w[i]) = Scan!After("outside", Scan!Quote)
            /\ Scan!Opens(m[i - 1], w[i], b) = Scan!Opens("outside", Scan!Quote, b)
        BY <4>2
      <4>4. Scan!After("outside", Scan!Quote) = "inside" /\ Scan!Opens("outside", Scan!Quote, b) = 0
        BY <2>0, Punctuation
      <4>5. m[i] = Scan!After(m[i - 1], w[i]) /\ Scan!Opens(m[i - 1], w[i], b) = 0
        BY <4>2, <4>3, <4>4
      <4> QED
        BY <4>2, <4>5
    <3>3. CASE i = 3
      <4>1. i - 1 = 2
        BY <3>3
      <4>2. m[i] = "inside" /\ m[i - 1] = "inside" /\ d[i] = 1 /\ d[i - 1] = 1 /\ w[i] = "L"
        BY <1>6, <1>9, <1>10, <3>3, <4>1
      <4>3. /\ Scan!After(m[i - 1], w[i]) = Scan!After("inside", "L")
            /\ Scan!Opens(m[i - 1], w[i], b) = Scan!Opens("inside", "L", b)
        BY <4>2
      <4>4. Scan!After("inside", "L") = "inside" /\ Scan!Opens("inside", "L", b) = 0
        BY <2>0, Punctuation
      <4>5. m[i] = Scan!After(m[i - 1], w[i]) /\ Scan!Opens(m[i - 1], w[i], b) = 0
        BY <4>2, <4>3, <4>4
      <4> QED
        BY <4>2, <4>5
    <3>4. CASE i = 4
      <4>1. i - 1 = 3
        BY <3>4
      <4>2. m[i] = "outside" /\ m[i - 1] = "inside" /\ d[i] = 1 /\ d[i - 1] = 1 /\ w[i] = Scan!Quote
        BY <1>6, <1>9, <1>10, <3>4, <4>1
      <4>3. /\ Scan!After(m[i - 1], w[i]) = Scan!After("inside", Scan!Quote)
            /\ Scan!Opens(m[i - 1], w[i], b) = Scan!Opens("inside", Scan!Quote, b)
        BY <4>2
      <4>4. Scan!After("inside", Scan!Quote) = "outside" /\ Scan!Opens("inside", Scan!Quote, b) = 0
        BY <2>0, Punctuation
      <4>5. m[i] = Scan!After(m[i - 1], w[i]) /\ Scan!Opens(m[i - 1], w[i], b) = 0
        BY <4>2, <4>3, <4>4
      <4> QED
        BY <4>2, <4>5
    <3>5. CASE i = 5
      <4>1. i - 1 = 4
        BY <3>5
      <4>2. m[i] = "outside" /\ m[i - 1] = "outside" /\ d[i] = 1 /\ d[i - 1] = 1 /\ w[i] = ":"
        BY <1>6, <1>9, <1>10, <3>5, <4>1
      <4>3. /\ Scan!After(m[i - 1], w[i]) = Scan!After("outside", ":")
            /\ Scan!Opens(m[i - 1], w[i], b) = Scan!Opens("outside", ":", b)
        BY <4>2
      <4>4. Scan!After("outside", ":") = "outside" /\ Scan!Opens("outside", ":", b) = 0
        BY <2>0, Punctuation
      <4>5. m[i] = Scan!After(m[i - 1], w[i]) /\ Scan!Opens(m[i - 1], w[i], b) = 0
        BY <4>2, <4>3, <4>4
      <4> QED
        BY <4>2, <4>5
    <3>6. CASE i = 6
      <4>1. i - 1 = 5
        BY <3>6
      <4>2. m[i] = "outside" /\ m[i - 1] = "outside" /\ d[i] = 1 /\ d[i - 1] = 1 /\ w[i] = "["
        BY <1>6, <1>9, <1>10, <3>6, <4>1
      <4>3. /\ Scan!After(m[i - 1], w[i]) = Scan!After("outside", "[")
            /\ Scan!Opens(m[i - 1], w[i], b) = Scan!Opens("outside", "[", b)
        BY <4>2
      <4>4. Scan!After("outside", "[") = "outside" /\ Scan!Opens("outside", "[", b) = 0
        BY <2>0, Punctuation
      <4>5. m[i] = Scan!After(m[i - 1], w[i]) /\ Scan!Opens(m[i - 1], w[i], b) = 0
        BY <4>2, <4>3, <4>4
      <4> QED
        BY <4>2, <4>5
    <3> QED
      BY <2>1, <3>1, <3>2, <3>3, <3>4, <3>5, <3>6
  <2>2. CASE i = n + 7
    <3>1. i - 1 = n + 6
      BY <2>2
    <3>2. m[i] = "outside" /\ m[i - 1] = "outside" /\ d[i] = 1 /\ d[i - 1] = 1 /\ w[i] = "]"
      BY <1>6, <1>9, <1>10, <2>2, <3>1
    <3>3. /\ Scan!After(m[i - 1], w[i]) = Scan!After("outside", "]")
          /\ Scan!Opens(m[i - 1], w[i], b) = Scan!Opens("outside", "]", b)
      BY <3>2
    <3>4. Scan!After("outside", "]") = "outside" /\ Scan!Opens("outside", "]", b) = 0
      BY <2>0, Punctuation
    <3>5. m[i] = Scan!After(m[i - 1], w[i]) /\ Scan!Opens(m[i - 1], w[i], b) = 0
      BY <3>2, <3>3, <3>4
    <3> QED
      BY <3>2, <3>5
  <2>3. CASE i = n + 8
    <3>1. i - 1 = n + 7
      BY <2>3
    <3>2. m[i] = "outside" /\ m[i - 1] = "outside" /\ d[i] = 0 /\ d[i - 1] = 1 /\ w[i] = "}"
      BY <1>6, <1>9, <1>10, <2>3, <3>1
    <3>3. /\ Scan!After(m[i - 1], w[i]) = Scan!After("outside", "}")
          /\ Scan!Opens(m[i - 1], w[i], b) = Scan!Opens("outside", "}", b)
      BY <3>2
    <3>4. Scan!After("outside", "}") = "outside" /\ Scan!Opens("outside", "}", b) = -1
      BY <2>0, Punctuation
    <3>5. m[i] = Scan!After(m[i - 1], w[i]) /\ Scan!Opens(m[i - 1], w[i], b) = -1
      BY <3>2, <3>3, <3>4
    <3>6. d[i - 1] + Scan!Opens(m[i - 1], w[i], b) = 1 + (-1)
      BY <3>2, <3>5
    <3>7. 1 + (-1) = 0
      OBVIOUS
    <3> QED
      BY <3>2, <3>5, <3>6, <3>7
  <2>4. CASE i \notin {1, 2, 3, 4, 5, 6} /\ i # n + 7 /\ i # n + 8
    <3>1. PICK j \in 1..n : i = 6 + j
      <4>1. i - 6 \in 1..n /\ i = 6 + (i - 6)
        BY <2>4
      <4> QED
        BY <4>1
    <3>2. i - 1 = 6 + (j - 1) /\ j - 1 \in 0..n /\ j \in 0..n
      BY <3>1
    <3>3. /\ m[i] = mc[j] /\ d[i] = 1 + dc[j] /\ m[i - 1] = mc[j - 1] /\ d[i - 1] = 1 + dc[j - 1]
          /\ w[i] = c[j]
      BY <1>6, <1>8, <3>1, <3>2
    <3>4. /\ mc[j] = Scan!After(mc[j - 1], c[j])
          /\ dc[j] = dc[j - 1] + Scan!Opens(mc[j - 1], c[j], b)
      BY <1>7, <3>1
    <3>5. Scan!Opens(mc[j - 1], c[j], b) \in Int
      BY DEF Scan!Opens
    <3>6. dc[j - 1] \in Int
      BY <1>7, <3>2
    <3>7. 1 + dc[j] = (1 + dc[j - 1]) + Scan!Opens(mc[j - 1], c[j], b)
      BY <3>4, <3>5, <3>6
    <3> QED
      BY <3>3, <3>4, <3>7
  <2> QED
    BY <2>1, <2>2, <2>3, <2>4
<1>12. \A i \in 1..(n + 7) : d[i] \in Int /\ d[i] >= 1
  <2>1. ASSUME NEW i \in 1..(n + 7) PROVE d[i] \in Int /\ d[i] >= 1
    <3>1. CASE i \in 6..(n + 6)
      <4>1. i - 6 \in 0..n /\ i = 6 + (i - 6)
        BY <3>1
      <4>2. d[i] = 1 + dc[i - 6] /\ dc[i - 6] \in Int /\ dc[i - 6] >= 0
        BY <1>7, <1>8, <4>1
      <4> QED
        BY <4>2
    <3>2. CASE i \notin 6..(n + 6)
      <4>1. i \in {1, 2, 3, 4, 5, n + 7}
        BY <3>2
      <4> QED
        BY <1>10, <4>1
    <3> QED
      BY <3>1, <3>2
  <2> QED
    BY <2>1
<1>13. \A i \in 0..(n + 8) : d[i] \in Int
  <2>1. \A i \in 0..(n + 8) : i = 0 \/ i = n + 8 \/ i \in 1..(n + 7)
    OBVIOUS
  <2> QED
    BY <1>10, <1>12, <2>1
<1>14. Marks(w, b, m, d)
  BY <1>6, <1>9, <1>10, <1>11, <1>13 DEF Marks
<1>15. /\ \A i \in 1..(Len(w) - 1) : d[i] >= 1
       /\ d[Len(w)] = 0
  <2>1. Len(w) = n + 8
    BY <1>6
  <2>2. (n + 8) - 1 = n + 7
    OBVIOUS
  <2> QED
    BY <1>10, <1>12, <2>1, <2>2
<1> QED
  BY <1>14, <1>15 DEF IsValue

-----------------------------------------------------------------------------
(* The places of the members, and of their names, in a collateral.         *)

(* The lengths of the chain and of the contents of the two arrays of levels. *)
Sizes(d, x, y, z) ==
  x = Len(d.chain) /\ y = Len(d.tcbLevels) /\ z = Len(d.qeLevels)

(* The characters of a collateral that are not part of those, where they are. *)
Spots(r, d, x, y, z) ==
  /\ r \in Seq(Char) /\ Len(r) = x + y + z + 34
  /\ r[1] = "{" /\ r[2] = Scan!Quote /\ r[3] = "C" /\ r[4] = Scan!Quote /\ r[5] = ":"
  /\ Carries(r, 5, Scan!Str(d.chain)) /\ r[6] = Scan!Quote /\ r[x + 7] = Scan!Quote
  /\ r[x + 8] = "," /\ r[x + 9] = Scan!Quote /\ r[x + 10] = "T" /\ r[x + 11] = Scan!Quote
  /\ r[x + 12] = ":" /\ Carries(r, x + 12, Scan!Document(d.tcbLevels))
  /\ r[x + 13] = "{" /\ r[x + 14] = Scan!Quote /\ r[x + 15] = "L" /\ r[x + 16] = Scan!Quote
  /\ r[x + 17] = ":" /\ r[x + 18] = "[" /\ Carries(r, x + 18, d.tcbLevels)
  /\ r[x + y + 19] = "]" /\ r[x + y + 20] = "}" /\ r[x + y + 21] = ","
  /\ r[x + y + 22] = Scan!Quote /\ r[x + y + 23] = "Q" /\ r[x + y + 24] = Scan!Quote
  /\ r[x + y + 25] = ":" /\ Carries(r, x + y + 25, Scan!Document(d.qeLevels))

(* A member in a text: its name, the colon and its value. *)
LEMMA MemberAt ==
  ASSUME NEW r, NEW k \in Nat, NEW v, Len(v) \in Nat, NEW name, NEW s, IsMember(s, name, v),
         Carries(r, k, s)
  PROVE  /\ r[k + 1] = Scan!Quote /\ r[k + 2] = name /\ r[k + 3] = Scan!Quote
         /\ r[k + 4] = ":" /\ Carries(r, k + 4, v)
<1>1. /\ Len(s) = Len(v) + 4 /\ s[1] = Scan!Quote /\ s[2] = name /\ s[3] = Scan!Quote /\ s[4] = ":"
      /\ \A i \in 1..Len(v) : s[4 + i] = v[i]
  BY DEF IsMember
<1>2. 1 \in 1..Len(s) /\ 2 \in 1..Len(s) /\ 3 \in 1..Len(s) /\ 4 \in 1..Len(s)
  BY <1>1
<1>3. r[k + 1] = s[1] /\ r[k + 2] = s[2] /\ r[k + 3] = s[3] /\ r[k + 4] = s[4]
  BY <1>2 DEF Carries
<1>4. PICK m : m = k + 4
  OBVIOUS
<1>5. Len(s) \in Nat /\ 4 + Len(v) <= Len(s) /\ Carries(s, 4, v)
  BY <1>1 DEF Carries
<1>6. Carries(r, m, v)
  BY <1>4, <1>5, Deeper
<1> QED
  BY <1>1, <1>3, <1>4, <1>6

(* A document in a text. *)
HasDocument(r, k, c) ==
  /\ r[k + 1] = "{" /\ r[k + 2] = Scan!Quote /\ r[k + 3] = "L" /\ r[k + 4] = Scan!Quote
  /\ r[k + 5] = ":" /\ r[k + 6] = "[" /\ Carries(r, k + 6, c)
  /\ r[k + (Len(c) + 7)] = "]" /\ r[k + (Len(c) + 8)] = "}"

(* And what is at its places. *)
LEMMA DocumentAt ==
  ASSUME NEW r, NEW k \in Nat, NEW c, Len(c) \in Nat, NEW s, IsDocument(s, c),
         Carries(r, k, s)
  PROVE  HasDocument(r, k, c)
<1>1. /\ Len(s) = Len(c) + 8 /\ s[1] = "{" /\ s[2] = Scan!Quote /\ s[3] = "L"
      /\ s[4] = Scan!Quote /\ s[5] = ":" /\ s[6] = "["
      /\ s[Len(c) + 7] = "]" /\ s[Len(c) + 8] = "}"
      /\ \A i \in 1..Len(c) : s[6 + i] = c[i]
  BY DEF IsDocument
<1>2. /\ 1 \in 1..Len(s) /\ 2 \in 1..Len(s) /\ 3 \in 1..Len(s) /\ 4 \in 1..Len(s)
      /\ 5 \in 1..Len(s) /\ 6 \in 1..Len(s) /\ Len(c) + 7 \in 1..Len(s)
      /\ Len(c) + 8 \in 1..Len(s)
  <2>1. Len(s) = Len(c) + 8
    BY <1>1
  <2> QED
    BY <2>1
<1>3. /\ r[k + 1] = s[1] /\ r[k + 2] = s[2] /\ r[k + 3] = s[3] /\ r[k + 4] = s[4]
      /\ r[k + 5] = s[5] /\ r[k + 6] = s[6]
  BY <1>2 DEF Carries
<1>4. r[k + (Len(c) + 7)] = s[Len(c) + 7] /\ r[k + (Len(c) + 8)] = s[Len(c) + 8]
  BY <1>2 DEF Carries
<1>5. PICK m : m = k + 6
  OBVIOUS
<1>6. Len(s) \in Nat /\ 6 + Len(c) <= Len(s) /\ Carries(s, 6, c)
  <2>1. Len(s) = Len(c) + 8
    BY <1>1
  <2>2. Carries(s, 6, c)
    BY <1>1 DEF Carries
  <2> QED
    BY <2>1, <2>2
<1>7. Carries(r, m, c)
  BY <1>5, <1>6, Deeper
<1> QED
  BY <1>1, <1>3, <1>4, <1>5, <1>7 DEF HasDocument

(* The places in the text of a collateral. *)
LEMMA SpotsAre ==
  ASSUME NEW d \in Doc, NEW x \in Nat, NEW y \in Nat, NEW z \in Nat,
         Sizes(d, x, y, z), NEW r, r = Scan!Collateral(d)
  PROVE  Spots(r, d, x, y, z)
<1>1. /\ d.chain \in Seq(Char) /\ d.tcbLevels \in Seq(Char) /\ d.qeLevels \in Seq(Char)
  BY DEF Doc
<1>2. PICK c : c = Scan!Str(d.chain)
  OBVIOUS
<1>3. PICK t : t = Scan!Document(d.tcbLevels)
  OBVIOUS
<1>4. PICK q : q = Scan!Document(d.qeLevels)
  OBVIOUS
<1>5. /\ IsMember(Scan!Member("C", c), "C", c) /\ IsMember(Scan!Member("T", t), "T", t)
      /\ IsMember(Scan!Member("Q", q), "Q", q)
  BY <1>2, <1>3, <1>4, PartsAre
<1>6. IsBetween(c, Scan!Quote, d.chain, Scan!Quote) /\ IsDocument(t, d.tcbLevels)
      /\ IsDocument(q, d.qeLevels)
  BY <1>1, <1>2, <1>3, <1>4, StrIs, DocumentIs
<1>7. Len(c) = x + 2 /\ c[1] = Scan!Quote /\ c[x + 2] = Scan!Quote
  BY <1>6 DEF IsBetween, Sizes
<1>8. Len(t) = y + 8 /\ Len(q) = z + 8
  BY <1>6 DEF IsDocument, Sizes
<1>9. IsLaidOut(r, d)
  BY CollateralIs
<1>10. /\ r \in Seq(Char) /\ Len(r) = x + y + z + 34
       /\ r[1] = "{" /\ Carries(r, 1, Scan!Member("C", c)) /\ r[x + 8] = ","
       /\ Carries(r, x + 8, Scan!Member("T", t)) /\ r[x + y + 21] = ","
       /\ Carries(r, x + y + 21, Scan!Member("Q", q))
  BY <1>2, <1>3, <1>4, <1>9 DEF IsLaidOut, Sizes
<1>11. /\ r[2] = Scan!Quote /\ r[3] = "C" /\ r[4] = Scan!Quote /\ r[5] = ":" /\ Carries(r, 5, c)
  <2>1. /\ 1 + 1 = 2 /\ 1 + 2 = 3 /\ 1 + 3 = 4 /\ 1 + 4 = 5
    OBVIOUS
  <2>2. Len(c) \in Nat
    BY <1>7
  <2>3. PICK k \in Nat : k = 1
    OBVIOUS
  <2>4. Carries(r, k, Scan!Member("C", c))
    BY <1>10, <2>3
  <2>5. /\ r[k + 1] = Scan!Quote /\ r[k + 2] = "C" /\ r[k + 3] = Scan!Quote
        /\ r[k + 4] = ":" /\ Carries(r, k + 4, c)
    BY <1>5, <2>2, <2>4, MemberAt
  <2> QED
    BY <2>1, <2>3, <2>5
<1>12. r[6] = Scan!Quote /\ r[x + 7] = Scan!Quote
  <2>1. 1 \in 1..Len(c) /\ x + 2 \in 1..Len(c) /\ 5 + 1 = 6 /\ 5 + (x + 2) = x + 7
    BY <1>7
  <2>2. r[5 + 1] = c[1] /\ r[5 + (x + 2)] = c[x + 2]
    BY <1>11, <2>1 DEF Carries
  <2> QED
    BY <1>7, <2>1, <2>2
<1>13. /\ r[x + 9] = Scan!Quote /\ r[x + 10] = "T" /\ r[x + 11] = Scan!Quote
       /\ r[x + 12] = ":" /\ Carries(r, x + 12, t)
  <2>1. PICK k \in Nat : k = x + 8
    OBVIOUS
  <2>2. k + 1 = x + 9 /\ k + 2 = x + 10 /\ k + 3 = x + 11 /\ k + 4 = x + 12
    BY <2>1
  <2>3. Len(t) \in Nat /\ Carries(r, k, Scan!Member("T", t))
    <3>1. Len(t) \in Nat
      BY <1>8
    <3> QED
      BY <1>10, <2>1, <3>1
  <2>4. /\ r[k + 1] = Scan!Quote /\ r[k + 2] = "T" /\ r[k + 3] = Scan!Quote
        /\ r[k + 4] = ":" /\ Carries(r, k + 4, t)
    BY <1>5, <2>3, MemberAt
  <2> QED
    BY <2>2, <2>4
<1>14. /\ r[x + y + 22] = Scan!Quote /\ r[x + y + 23] = "Q" /\ r[x + y + 24] = Scan!Quote
       /\ r[x + y + 25] = ":" /\ Carries(r, x + y + 25, q)
  <2>1. PICK k \in Nat : k = x + y + 21
    OBVIOUS
  <2>2. k + 1 = x + y + 22 /\ k + 2 = x + y + 23 /\ k + 3 = x + y + 24 /\ k + 4 = x + y + 25
    BY <2>1
  <2>3. Len(q) \in Nat /\ Carries(r, k, Scan!Member("Q", q))
    <3>1. Len(q) \in Nat
      BY <1>8
    <3>2. Carries(r, x + y + 21, Scan!Member("Q", q))
      BY <1>10
    <3> QED
      BY <2>1, <3>1, <3>2
  <2>4. /\ r[k + 1] = Scan!Quote /\ r[k + 2] = "Q" /\ r[k + 3] = Scan!Quote
        /\ r[k + 4] = ":" /\ Carries(r, k + 4, q)
    BY <1>5, <2>3, MemberAt
  <2> QED
    BY <2>2, <2>4
<1>15. /\ r[x + 13] = "{" /\ r[x + 14] = Scan!Quote /\ r[x + 15] = "L" /\ r[x + 16] = Scan!Quote
       /\ r[x + 17] = ":" /\ r[x + 18] = "[" /\ Carries(r, x + 18, d.tcbLevels)
       /\ r[x + y + 19] = "]" /\ r[x + y + 20] = "}"
  <2>1. PICK k \in Nat : k = x + 12
    OBVIOUS
  <2>2. /\ k + 1 = x + 13 /\ k + 2 = x + 14 /\ k + 3 = x + 15 /\ k + 4 = x + 16
        /\ k + 5 = x + 17 /\ k + 6 = x + 18
    BY <2>1
  <2>3. k + (y + 7) = x + y + 19 /\ k + (y + 8) = x + y + 20
    <3>1. (x + 12) + (y + 7) = x + y + 19 /\ (x + 12) + (y + 8) = x + y + 20
      OBVIOUS
    <3> QED
      BY <2>1, <3>1
  <2>4. Carries(r, k, t)
    BY <1>13, <2>1
  <2>5. PICK u : u = d.tcbLevels
    OBVIOUS
  <2>6. Len(u) = y /\ Len(u) \in Nat /\ IsDocument(t, u)
    BY <1>6, <2>5 DEF Sizes
  <2>7. /\ r[k + 1] = "{" /\ r[k + 2] = Scan!Quote /\ r[k + 3] = "L" /\ r[k + 4] = Scan!Quote
        /\ r[k + 5] = ":" /\ r[k + 6] = "[" /\ Carries(r, k + 6, u)
        /\ r[k + (y + 7)] = "]" /\ r[k + (y + 8)] = "}"
    <3>1. HasDocument(r, k, u)
      BY <2>4, <2>6, DocumentAt
    <3> QED
      BY <2>6, <3>1 DEF HasDocument
  <2> QED
    BY <2>2, <2>3, <2>5, <2>6, <2>7
<1> QED
  BY <1>2, <1>3, <1>4, <1>10, <1>11, <1>12, <1>13, <1>14, <1>15 DEF Spots

(* The name of a member, quoted, at a place. *)
NeedleAt(r, i, name) == r[i] = Scan!Quote /\ r[i + 1] = name /\ r[i + 2] = Scan!Quote

(* The names found in a text are the ones that stand there. *)
LEMMA NeedlesAre ==
  ASSUME NEW S, NEW s \in Seq(S), NEW name
  PROVE  \A i : i \in Scan!Needles(s, name) <=> i \in 1..(Len(s) - 2) /\ NeedleAt(s, i, name)
<1>1. ASSUME NEW i \in 1..(Len(s) - 2)
      PROVE  SubSeq(s, i, i + 2) = <<Scan!Quote, name, Scan!Quote>> <=> NeedleAt(s, i, name)
  <2>1. PICK u : u = SubSeq(s, i, i + 2)
    OBVIOUS
  <2>2. PICK n : n = <<Scan!Quote, name, Scan!Quote>>
    OBVIOUS
  <2>3. u \in Seq(S) /\ Len(u) = 3 /\ u[1] = s[i] /\ u[2] = s[i + 1] /\ u[3] = s[i + 2]
    BY <2>1
  <2>4. Len(n) = 3 /\ n[1] = Scan!Quote /\ n[2] = name /\ n[3] = Scan!Quote
    BY <2>2
  <2>5. DOMAIN u = 1..3 /\ DOMAIN n = 1..3 /\ u = [k \in 1..3 |-> u[k]] /\ n = [k \in 1..3 |-> n[k]]
    BY <2>2, <2>3
  <2>6. \A k \in 1..3 : k = 1 \/ k = 2 \/ k = 3
    OBVIOUS
  <2>7. u[1] = n[1] /\ u[2] = n[2] /\ u[3] = n[3] => u = n
    BY <2>5, <2>6
  <2> QED
    BY <2>1, <2>2, <2>3, <2>4, <2>7 DEF NeedleAt
<1> QED
  BY <1>1 DEF Scan!Needles

(* No name stands where its middle character is not, or where a quote is   *)
(* missing.                                                                *)
LEMMA NoNeedle ==
  ASSUME NEW r, NEW i, NEW name,
         \/ r[i] # Scan!Quote
         \/ r[i + 1] # name
         \/ r[i + 2] # Scan!Quote
  PROVE  ~NeedleAt(r, i, name)
  BY DEF NeedleAt

(* The characters between the names are none of the names. *)
LEMMA OtherCharacters ==
  ASSUME NEW name \in {"L", "T", "Q"}
  PROVE  /\ name # Scan!Quote /\ name # "C" /\ name # ":" /\ name # "," /\ name # "{"
         /\ name # "[" /\ name # "]" /\ name # "}"
         /\ "[" # Scan!Quote /\ "]" # Scan!Quote
<1>1. "L" # Scan!Quote /\ "T" # Scan!Quote /\ "Q" # Scan!Quote /\ "[" # Scan!Quote
      /\ "]" # Scan!Quote
  BY Characters
<1> QED
  BY <1>1

(* A name that stands in a part stands at that place of the part. *)
LEMMA NeedleInside ==
  ASSUME NEW r, NEW k \in Nat, NEW s \in Seq(Char), Carries(r, k, s), NEW name,
         Scan!Needles(s, name) = {}, NEW j \in Nat, j >= 1, j + 2 <= Len(s), NEW i, i = k + j
  PROVE  ~NeedleAt(r, i, name)
<1>1. j \in 1..Len(s) /\ j + 1 \in 1..Len(s) /\ j + 2 \in 1..Len(s)
  OBVIOUS
<1>2. k + (j + 1) = i + 1 /\ k + (j + 2) = i + 2
  OBVIOUS
<1>3. r[k + j] = s[j] /\ r[k + (j + 1)] = s[j + 1] /\ r[k + (j + 2)] = s[j + 2]
  BY <1>1 DEF Carries
<1>4. ~NeedleAt(s, j, name)
  <2>1. j \in 1..(Len(s) - 2)
    OBVIOUS
  <2> QED
    BY <2>1, NeedlesAre
<1> QED
  BY <1>2, <1>3, <1>4 DEF NeedleAt

(* Up to the tcbInfo no name of a wanted member stands in the text. *)
LEMMA HeadFree ==
  ASSUME NEW r, NEW d \in Doc, NEW x \in Nat, NEW y \in Nat, NEW z \in Nat, Sizes(d, x, y, z),
         Spots(r, d, x, y, z), NEW name \in {"L", "T", "Q"},
         Scan!Needles(Scan!Str(d.chain), name) = {}, NEW i \in 1..(x + 8)
  PROVE  ~NeedleAt(r, i, name)
<1>1. /\ r[2] = Scan!Quote /\ r[3] = "C" /\ r[4] = Scan!Quote /\ r[5] = ":"
      /\ r[6] = Scan!Quote /\ r[x + 7] = Scan!Quote /\ r[x + 8] = "," /\ r[x + 9] = Scan!Quote
      /\ Carries(r, 5, Scan!Str(d.chain))
  BY DEF Spots
<1>2. PICK c : c = Scan!Str(d.chain)
  OBVIOUS
<1>3. c \in Seq(Char) /\ Len(c) = x + 2
  <2>1. IsBetween(c, Scan!Quote, d.chain, Scan!Quote)
    BY <1>2, StrIs DEF Doc
  <2> QED
    BY <2>1 DEF IsBetween, Sizes
<1>4. CASE i \in {1, 2, 3, 4, 5, x + 6, x + 7, x + 8}
  <2>1. \/ i + 1 = 2 \/ i + 1 = 3 \/ i + 1 = 4 \/ i + 1 = 5 \/ i + 1 = 6 \/ i + 1 = x + 7
        \/ i + 1 = x + 8 \/ i + 1 = x + 9
    BY <1>4
  <2>2. r[i + 1] \in {Scan!Quote, "C", ":", ","}
    BY <1>1, <2>1
  <2>3. r[i + 1] # name
    BY <2>2, OtherCharacters
  <2> QED
    BY <2>3, NoNeedle
<1>5. CASE i \in 6..(x + 5)
  <2>1. PICK j \in 1..x : i = 5 + j
    <3>1. i - 5 \in 1..x /\ i = 5 + (i - 5)
      BY <1>5
    <3> QED
      BY <3>1
  <2>2. j \in Nat /\ j >= 1 /\ j + 2 <= Len(c) /\ 5 \in Nat
    BY <1>3, <2>1
  <2>3. Carries(r, 5, c) /\ Scan!Needles(c, name) = {} /\ c \in Seq(Char)
    BY <1>1, <1>2, <1>3
  <2> QED
    BY <2>1, <2>2, <2>3, NeedleInside
<1>6. i \in {1, 2, 3, 4, 5, x + 6, x + 7, x + 8} \/ i \in 6..(x + 5)
  OBVIOUS
<1> QED
  BY <1>4, <1>5, <1>6

(* From there to the levels only the tcbInfo's. *)
LEMMA BodyFree ==
  ASSUME NEW r, NEW d, NEW x \in Nat, NEW y \in Nat, NEW z \in Nat,
         Spots(r, d, x, y, z), NEW name \in {"L", "Q"}, NEW i \in (x + 9)..(x + 13)
  PROVE  ~NeedleAt(r, i, name)
<1>1. /\ r[x + 10] = "T" /\ r[x + 11] = Scan!Quote /\ r[x + 12] = ":" /\ r[x + 13] = "{"
      /\ r[x + 14] = Scan!Quote
  BY DEF Spots
<1>2. \/ i + 1 = x + 10 \/ i + 1 = x + 11 \/ i + 1 = x + 12 \/ i + 1 = x + 13 \/ i + 1 = x + 14
  OBVIOUS
<1>3. r[i + 1] \in {"T", Scan!Quote, ":", "{"}
  BY <1>1, <1>2
<1>4. r[i + 1] # name
  <2>1. name # Scan!Quote /\ name # ":" /\ name # "{" /\ name # "T"
    BY OtherCharacters
  <2> QED
    BY <1>3, <2>1
<1> QED
  BY <1>4, NoNeedle

(* And from there to the QE identity not the QE identity's. *)
LEMMA LevelsFree ==
  ASSUME NEW r, NEW d \in Doc, NEW x \in Nat, NEW y \in Nat, NEW z \in Nat, Sizes(d, x, y, z),
         Spots(r, d, x, y, z), Scan!Needles(d.tcbLevels, "Q") = {},
         NEW i \in (x + 14)..(x + y + 21)
  PROVE  ~NeedleAt(r, i, "Q")
<1>1. /\ r[x + 15] = "L" /\ r[x + 16] = Scan!Quote
      /\ r[x + 17] = ":" /\ r[x + 18] = "[" /\ Carries(r, x + 18, d.tcbLevels)
      /\ r[x + y + 19] = "]" /\ r[x + y + 20] = "}" /\ r[x + y + 21] = ","
      /\ r[x + y + 22] = Scan!Quote
  BY DEF Spots
<1>2. PICK c : c = d.tcbLevels
  OBVIOUS
<1>3. c \in Seq(Char) /\ Len(c) = y
  BY <1>2 DEF Doc, Sizes
<1>4. CASE i \in (x + 14)..(x + 17)
  <2>1. \/ i + 1 = x + 15 \/ i + 1 = x + 16 \/ i + 1 = x + 17 \/ i + 1 = x + 18
    BY <1>4
  <2>2. r[i + 1] \in {"L", Scan!Quote, ":", "["}
    BY <1>1, <2>1
  <2>3. r[i + 1] # "Q"
    <3>1. "Q" # Scan!Quote
      BY OtherCharacters
    <3> QED
      BY <2>2, <3>1
  <2> QED
    BY <2>3, NoNeedle
<1>5. CASE i = x + 18
  <2>1. r[i] # Scan!Quote
    BY <1>1, <1>5, OtherCharacters
  <2> QED
    BY <2>1, NoNeedle
<1>6. CASE i = x + y + 17
  <2>1. i + 2 = x + y + 19
    BY <1>6
  <2>2. r[i + 2] # Scan!Quote
    BY <1>1, <2>1, OtherCharacters
  <2> QED
    BY <2>2, NoNeedle
<1>7. CASE i \in (x + y + 18)..(x + y + 21)
  <2>1. \/ i + 1 = x + y + 19 \/ i + 1 = x + y + 20 \/ i + 1 = x + y + 21 \/ i + 1 = x + y + 22
    BY <1>7
  <2>2. r[i + 1] \in {"]", "}", ",", Scan!Quote}
    BY <1>1, <2>1
  <2>3. r[i + 1] # "Q"
    <3>1. "Q" # Scan!Quote
      BY OtherCharacters
    <3> QED
      BY <2>2, <3>1
  <2> QED
    BY <2>3, NoNeedle
<1>8. CASE i \in (x + 19)..(x + y + 16)
  <2>1. PICK k \in Nat : k = x + 18
    OBVIOUS
  <2>2. PICK j \in 1..(y - 2) : i = k + j
    <3>1. i - (x + 18) \in 1..(y - 2) /\ i = (x + 18) + (i - (x + 18))
      BY <1>8
    <3> QED
      BY <2>1, <3>1
  <2>3. j \in Nat /\ j >= 1 /\ j + 2 <= Len(c)
    BY <1>3, <2>2
  <2>4. Carries(r, k, c) /\ Scan!Needles(c, "Q") = {} /\ c \in Seq(Char)
    BY <1>1, <1>2, <1>3, <2>1
  <2> QED
    BY <2>2, <2>3, <2>4, NeedleInside
<1>9. \/ i \in (x + 14)..(x + 17) \/ i = x + 18 \/ i \in (x + 19)..(x + y + 16)
      \/ i = x + y + 17 \/ i \in (x + y + 18)..(x + y + 21)
  OBVIOUS
<1> QED
  BY <1>4, <1>5, <1>6, <1>7, <1>8, <1>9

-----------------------------------------------------------------------------
(* The value of every scan in its place.                                   *)

(* The value w of the member a scan is for stands in the text r: its name  *)
(* at p and not before, then the colon and w, up to e.                     *)
Placed(r, by, p, w, e) ==
  /\ p \in Nat /\ p >= 1 /\ w \in Seq(Char) /\ Len(w) >= 2
  /\ e = p + 3 + Len(w) /\ e <= Len(r)
  /\ NeedleAt(r, p, Scan!Name[by])
  /\ \A i \in 1..(p - 1) : ~NeedleAt(r, i, Scan!Name[by])
  /\ r[p + 3] = ":" /\ Carries(r, p + 3, w)
  /\ w[1] = Scan!Brackets[by][1] /\ w[1] # ":"
  /\ IsValue(w, Scan!Brackets[by])

(* What the assumption on the documents says of each of them. *)
LEMMA DocIs ==
  ASSUME NEW d \in Docs
  PROVE  /\ d \in Doc /\ Scan!Closed(d.tcbLevels) /\ Scan!Closed(d.qeLevels)
         /\ \A by \in Scan!Scanner : Scan!Needles(Scan!Str(d.chain), Scan!Name[by]) = {}
         /\ Scan!Needles(d.tcbLevels, "Q") = {}
<1>1. d \in [chain : Seq(STRING), tcbLevels : Seq(STRING), qeLevels : Seq(STRING)]
  BY DocsAssumption
<1>2. ASSUME NEW s \in Seq(STRING) PROVE s \in Seq(Char)
  <2>1. \A i \in 1..Len(s) : s[i] \in Char
    <3>1. \A c \in STRING : c \in Char
      BY DEF Char
    <3>2. \A i \in 1..Len(s) : s[i] \in STRING
      OBVIOUS
    <3> QED
      BY <3>1, <3>2
  <2>2. s = [i \in 1..Len(s) |-> s[i]] /\ Len(s) \in Nat
    OBVIOUS
  <2>3. [i \in 1..Len(s) |-> s[i]] \in Seq(Char)
    BY <2>1, <2>2
  <2> QED
    BY <2>2, <2>3
<1>3. d.chain \in Seq(STRING) /\ d.tcbLevels \in Seq(STRING) /\ d.qeLevels \in Seq(STRING)
  BY <1>1
<1>4. d = [chain |-> d.chain, tcbLevels |-> d.tcbLevels, qeLevels |-> d.qeLevels]
  BY <1>1
<1>5. d.chain \in Seq(Char) /\ d.tcbLevels \in Seq(Char) /\ d.qeLevels \in Seq(Char)
  BY <1>2, <1>3
<1>6. d \in Doc
  BY <1>4, <1>5 DEF Doc
<1> QED
  BY <1>6, DocsAssumption

(* The names and first brackets of the three scans. *)
LEMMA ScannersAre ==
  /\ Scan!Scanner = {"levels", "tcb_info", "qe_identity"}
  /\ Scan!Name["levels"] = "L" /\ Scan!Name["tcb_info"] = "T" /\ Scan!Name["qe_identity"] = "Q"
  /\ Scan!Brackets["levels"][1] = "[" /\ Scan!Brackets["tcb_info"][1] = "{"
  /\ Scan!Brackets["qe_identity"][1] = "{"
<1>1. "levels" \in {"levels"} /\ Scan!Brackets["levels"][1] = "["
  BY SquareBrackets
<1>2. Scan!Brackets["tcb_info"][1] = "{" /\ Scan!Brackets["qe_identity"][1] = "{"
  BY CurlyBrackets
<1>3. /\ Scan!Scanner = {"levels", "tcb_info", "qe_identity"}
      /\ Scan!Name["levels"] = "L" /\ Scan!Name["tcb_info"] = "T" /\ Scan!Name["qe_identity"] = "Q"
  BY DEF Scan!Scanner, Scan!Name
<1> QED
  BY <1>1, <1>2, <1>3

(* Where the levels of the tcbInfo stand. *)
LEMMA LevelsPlaced ==
  ASSUME NEW d \in Docs, NEW x \in Nat, NEW y \in Nat, NEW z \in Nat, Sizes(d, x, y, z),
         NEW r, r = Scan!Collateral(d), NEW w, w = <<"[">> \o d.tcbLevels \o <<"]">>
  PROVE  Placed(r, "levels", x + 14, w, x + y + 19)
<1>1. d \in Doc /\ Scan!Closed(d.tcbLevels) /\ Scan!Needles(Scan!Str(d.chain), "L") = {}
  BY DocIs, ScannersAre
<1>2. Spots(r, d, x, y, z)
  BY <1>1, SpotsAre
<1>3. PICK c : c = d.tcbLevels
  OBVIOUS
<1>4. c \in Seq(Char) /\ Len(c) = y
  BY <1>1, <1>3 DEF Doc, Sizes
<1>5. IsBetween(w, "[", c, "]")
  <2>1. "[" \in Char /\ "]" \in Char
    BY DEF Char
  <2> QED
    BY <1>3, <1>4, <2>1, BetweenTwo
<1>6. w \in Seq(Char) /\ Len(w) = y + 2 /\ w[1] = "[" /\ w[y + 2] = "]"
      /\ \A i \in 1..y : w[1 + i] = c[i]
  BY <1>4, <1>5 DEF IsBetween
<1>7. IsValue(w, Scan!Brackets["levels"])
  BY <1>1, <1>3, <1>4, <1>5, ArrayIsValue
<1>8. /\ Len(r) = x + y + z + 34
      /\ r[x + 14] = Scan!Quote /\ r[x + 15] = "L" /\ r[x + 16] = Scan!Quote
      /\ r[x + 17] = ":" /\ r[x + 18] = "[" /\ Carries(r, x + 18, c) /\ r[x + y + 19] = "]"
  BY <1>2, <1>3 DEF Spots
<1>9. PICK p \in Nat : p = x + 14
  OBVIOUS
<1>10. /\ p + 1 = x + 15 /\ p + 2 = x + 16 /\ p + 3 = x + 17 /\ p >= 1
       /\ (p + 3) + (y + 2) = x + y + 19
  BY <1>9
<1>11. NeedleAt(r, p, "L")
  BY <1>8, <1>9, <1>10 DEF NeedleAt
<1>12. ASSUME NEW i \in 1..(p - 1) PROVE ~NeedleAt(r, i, "L")
  <2>1. i \in 1..(x + 8) \/ i \in (x + 9)..(x + 13)
    BY <1>9
  <2>2. "L" \in {"L", "T", "Q"} /\ "L" \in {"L", "Q"}
    OBVIOUS
  <2> QED
    BY <1>1, <1>2, <2>1, <2>2, HeadFree, BodyFree
<1>13. Carries(r, p + 3, w)
  <2>1. ASSUME NEW i \in 1..(y + 2) PROVE r[(x + 17) + i] = w[i]
    <3>1. CASE i = 1
      <4>1. (x + 17) + i = x + 18
        BY <3>1
      <4> QED
        BY <1>6, <1>8, <3>1, <4>1
    <3>2. CASE i = y + 2
      <4>1. (x + 17) + i = x + y + 19
        BY <3>2
      <4> QED
        BY <1>6, <1>8, <3>2, <4>1
    <3>3. CASE i # 1 /\ i # y + 2
      <4>1. PICK j \in 1..y : i = 1 + j
        <5>1. i - 1 \in 1..y /\ i = 1 + (i - 1)
          BY <3>3
        <5> QED
          BY <5>1
      <4>2. (x + 17) + i = (x + 18) + j
        BY <4>1
      <4>3. r[(x + 18) + j] = c[j]
        BY <1>4, <1>8, <4>1 DEF Carries
      <4> QED
        BY <1>6, <4>1, <4>2, <4>3
    <3> QED
      BY <3>1, <3>2, <3>3
  <2>2. Len(w) = y + 2
    BY <1>6
  <2> QED
    BY <1>10, <2>1, <2>2 DEF Carries
<1>14. /\ Len(w) >= 2 /\ x + y + 19 = p + 3 + Len(w) /\ x + y + 19 <= Len(r)
  <2>1. Len(w) = y + 2 /\ Len(r) = x + y + z + 34
    BY <1>6, <1>8
  <2>2. y + 2 >= 2 /\ x + y + 19 <= x + y + z + 34
    OBVIOUS
  <2>3. x + y + 19 = (p + 3) + (y + 2)
    BY <1>10
  <2> QED
    BY <2>1, <2>2, <2>3
<1>15. r[p + 3] = ":" /\ w[1] = "[" /\ w[1] # ":" /\ w \in Seq(Char)
  BY <1>6, <1>8, <1>10
<1>16. Placed(r, "levels", p, w, x + y + 19)
  BY <1>7, <1>10, <1>11, <1>12, <1>13, <1>14, <1>15, ScannersAre DEF Placed
<1> QED
  BY <1>9, <1>16

(* Where a document stands that begins after its name and the colon. *)
LEMMA DocumentPlaced ==
  ASSUME NEW r \in Seq(Char), NEW p \in Nat, p >= 1, NEW by \in {"tcb_info", "qe_identity"},
         NeedleAt(r, p, Scan!Name[by]), r[p + 3] = ":",
         \A i \in 1..(p - 1) : ~NeedleAt(r, i, Scan!Name[by]),
         NEW c \in Seq(Char), Scan!Closed(c), NEW w, w = Scan!Document(c),
         Carries(r, p + 3, w), NEW e, e = p + Len(c) + 11, e <= Len(r)
  PROVE  Placed(r, by, p, w, e)
<1>1. IsDocument(w, c)
  BY DocumentIs
<1>2. w \in Seq(Char) /\ Len(w) = Len(c) + 8 /\ w[1] = "{"
  BY <1>1 DEF IsDocument
<1>3. Len(w) >= 2 /\ e = p + 3 + Len(w)
  <2>1. Len(w) = Len(c) + 8
    BY <1>2
  <2> QED
    BY <2>1
<1>4. IsValue(w, Scan!Brackets[by])
  BY <1>1, DocumentIsValue
<1>5. w[1] = Scan!Brackets[by][1] /\ w[1] # ":"
  BY <1>2, ScannersAre
<1> QED
  BY <1>2, <1>3, <1>4, <1>5 DEF Placed

(* Each scan's value is placed. *)
LEMMA AllPlaced ==
  ASSUME NEW d \in Docs, NEW x \in Nat, NEW y \in Nat, NEW z \in Nat, Sizes(d, x, y, z),
         NEW r, r = Scan!Collateral(d)
  PROVE  /\ Placed(r, "levels", x + 14, <<"[">> \o d.tcbLevels \o <<"]">>, x + y + 19)
         /\ Placed(r, "tcb_info", x + 9, Scan!Document(d.tcbLevels), x + y + 20)
         /\ Placed(r, "qe_identity", x + y + 22, Scan!Document(d.qeLevels), x + y + z + 33)
<1>1. /\ d \in Doc /\ Scan!Closed(d.tcbLevels) /\ Scan!Closed(d.qeLevels)
      /\ Scan!Needles(Scan!Str(d.chain), "T") = {}
      /\ Scan!Needles(Scan!Str(d.chain), "Q") = {} /\ Scan!Needles(d.tcbLevels, "Q") = {}
  BY DocIs, ScannersAre
<1>2. Spots(r, d, x, y, z)
  BY <1>1, SpotsAre
<1>3. PICK c : c = d.tcbLevels
  OBVIOUS
<1>4. PICK q : q = d.qeLevels
  OBVIOUS
<1>5. c \in Seq(Char) /\ Len(c) = y /\ q \in Seq(Char) /\ Len(q) = z
  BY <1>1, <1>3, <1>4 DEF Doc, Sizes
<1>6. r \in Seq(Char) /\ Len(r) = x + y + z + 34
  BY <1>2 DEF Spots
<1>7. Placed(r, "levels", x + 14, <<"[">> \o d.tcbLevels \o <<"]">>, x + y + 19)
  BY LevelsPlaced
<1>8. Placed(r, "tcb_info", x + 9, Scan!Document(c), x + y + 20)
  <2>1. PICK p \in Nat : p = x + 9
    OBVIOUS
  <2>2. p >= 1 /\ p + 1 = x + 10 /\ p + 2 = x + 11 /\ p + 3 = x + 12
    BY <2>1
  <2>3. /\ r[x + 9] = Scan!Quote /\ r[x + 10] = "T" /\ r[x + 11] = Scan!Quote
        /\ r[x + 12] = ":" /\ Carries(r, x + 12, Scan!Document(c))
    BY <1>2, <1>3 DEF Spots
  <2>4. NeedleAt(r, p, "T") /\ r[p + 3] = ":" /\ Carries(r, p + 3, Scan!Document(c))
    BY <2>1, <2>2, <2>3 DEF NeedleAt
  <2>5. ASSUME NEW i \in 1..(p - 1) PROVE ~NeedleAt(r, i, "T")
    <3>1. i \in 1..(x + 8) /\ "T" \in {"L", "T", "Q"}
      BY <2>1
    <3> QED
      BY <1>1, <1>2, <3>1, HeadFree
  <2>6. PICK e \in Nat : e = x + y + 20
    OBVIOUS
  <2>7. e = p + y + 11 /\ e <= x + y + z + 34
    BY <2>1, <2>6
  <2>8. e = p + Len(c) + 11 /\ e <= Len(r)
    BY <1>5, <1>6, <2>7
  <2>9. Scan!Closed(c) /\ Scan!Name["tcb_info"] = "T"
    BY <1>1, <1>3, ScannersAre
  <2>10. Placed(r, "tcb_info", p, Scan!Document(c), e)
    BY <1>5, <1>6, <2>2, <2>4, <2>5, <2>8, <2>9, DocumentPlaced
  <2> QED
    BY <2>1, <2>6, <2>10
<1>9. Placed(r, "qe_identity", x + y + 22, Scan!Document(q), x + y + z + 33)
  <2>1. PICK p \in Nat : p = x + y + 22
    OBVIOUS
  <2>2. p >= 1 /\ p + 1 = x + y + 23 /\ p + 2 = x + y + 24 /\ p + 3 = x + y + 25
    BY <2>1
  <2>3. /\ r[x + y + 22] = Scan!Quote /\ r[x + y + 23] = "Q" /\ r[x + y + 24] = Scan!Quote
        /\ r[x + y + 25] = ":" /\ Carries(r, x + y + 25, Scan!Document(q))
    BY <1>2, <1>4 DEF Spots
  <2>4. NeedleAt(r, p, "Q") /\ r[p + 3] = ":" /\ Carries(r, p + 3, Scan!Document(q))
    BY <2>1, <2>2, <2>3 DEF NeedleAt
  <2>5. ASSUME NEW i \in 1..(p - 1) PROVE ~NeedleAt(r, i, "Q")
    <3>1. i \in 1..(x + 8) \/ i \in (x + 9)..(x + 13) \/ i \in (x + 14)..(x + y + 21)
      BY <2>1
    <3>2. "Q" \in {"L", "T", "Q"} /\ "Q" \in {"L", "Q"}
      OBVIOUS
    <3> QED
      BY <1>1, <1>2, <3>1, <3>2, HeadFree, BodyFree, LevelsFree
  <2>6. PICK e \in Nat : e = x + y + z + 33
    OBVIOUS
  <2>7. e = p + z + 11 /\ e <= x + y + z + 34
    BY <2>1, <2>6
  <2>8. e = p + Len(q) + 11 /\ e <= Len(r)
    BY <1>5, <1>6, <2>7
  <2>9. Scan!Closed(q) /\ Scan!Name["qe_identity"] = "Q"
    BY <1>1, <1>4, ScannersAre
  <2>10. Placed(r, "qe_identity", p, Scan!Document(q), e)
    BY <1>5, <1>6, <2>2, <2>4, <2>5, <2>8, <2>9, DocumentPlaced
  <2> QED
    BY <2>1, <2>6, <2>10
<1> QED
  BY <1>3, <1>4, <1>7, <1>8, <1>9

(* Two characters before a text. *)
LEMMA TwoMore ==
  ASSUME NEW q \in Seq(Char), NEW b \in Char, NEW c \in Char
  PROVE  Len(<<b, c>> \o q) = Len(q) + 2
<1>1. PICK a : a = <<b, c>>
  OBVIOUS
<1>2. a \in Seq(Char) /\ Len(a) = 2
  BY <1>1
<1>3. PICK r : r = a \o q
  OBVIOUS
<1>4. IsJoin(r, a, q)
  BY <1>2, <1>3, TwoTexts
<1>5. Len(r) = Len(a) + Len(q) /\ Len(q) \in Nat
  BY <1>4 DEF IsJoin
<1>6. Len(r) = Len(q) + 2
  BY <1>2, <1>5
<1> QED
  BY <1>1, <1>3, <1>6

-----------------------------------------------------------------------------
(* The scan.                                                               *)

(* What the scan is for, and where it ends, in the words of the places. *)
LEMMA WantedIs ==
  ASSUME doc \in Docs, scanner \in Scan!Scanner
  PROVE  \E p : Placed(Scan!Collateral(doc), scanner, p, Scan!Wanted, Scan!End)
<1>1. doc \in Doc
  BY DocIs
<1>2. PICK x \in Nat : x = Len(doc.chain)
  BY <1>1 DEF Doc
<1>3. PICK y \in Nat : y = Len(doc.tcbLevels)
  BY <1>1 DEF Doc
<1>4. PICK z \in Nat : z = Len(doc.qeLevels)
  BY <1>1 DEF Doc
<1>5. Sizes(doc, x, y, z)
  BY <1>2, <1>3, <1>4 DEF Sizes
<1>6. PICK r : r = Scan!Collateral(doc)
  OBVIOUS
<1>7. /\ Placed(r, "levels", x + 14, <<"[">> \o doc.tcbLevels \o <<"]">>, x + y + 19)
      /\ Placed(r, "tcb_info", x + 9, Scan!Document(doc.tcbLevels), x + y + 20)
      /\ Placed(r, "qe_identity", x + y + 22, Scan!Document(doc.qeLevels), x + y + z + 33)
  BY <1>5, <1>6, AllPlaced
<1>8. Len(r) = x + y + z + 34
  <2>1. Spots(r, doc, x, y, z)
    BY <1>1, <1>5, <1>6, SpotsAre
  <2> QED
    BY <2>1 DEF Spots
<1>9. PICK q : q = Scan!Member("Q", Scan!Document(doc.qeLevels))
  OBVIOUS
<1>10. q \in Seq(Char) /\ Len(q) = z + 12
  BY <1>1, <1>4, <1>9, PartsAre DEF IsMember
<1>11. Len(<<"}", ",">> \o q) = z + 14
  <2>1. Len(<<"}", ",">> \o q) = Len(q) + 2
    <3>1. "}" \in Char /\ "," \in Char
      BY DEF Char
    <3> QED
      BY <1>10, <3>1, TwoMore
  <2>2. (z + 12) + 2 = z + 14
    OBVIOUS
  <2> QED
    BY <1>10, <2>1, <2>2
<1>12. CASE scanner = "levels"
  <2>1. Scan!Wanted = <<"[">> \o doc.tcbLevels \o <<"]">>
    BY <1>12 DEF Scan!Wanted
  <2>2. Scan!End = Len(r) - ((z + 14) + 1)
    BY <1>6, <1>9, <1>11, <1>12 DEF Scan!End
  <2>3. (x + y + z + 34) - ((z + 14) + 1) = x + y + 19
    OBVIOUS
  <2> QED
    BY <1>6, <1>7, <1>8, <1>12, <2>1, <2>2, <2>3
<1>13. CASE scanner = "tcb_info"
  <2>1. Scan!Wanted = Scan!Document(doc.tcbLevels)
    BY <1>13 DEF Scan!Wanted
  <2>2. Scan!End = Len(r) - (Len(q) + 2)
    BY <1>6, <1>9, <1>13 DEF Scan!End
  <2>3. (x + y + z + 34) - ((z + 12) + 2) = x + y + 20
    OBVIOUS
  <2> QED
    BY <1>6, <1>7, <1>8, <1>10, <1>13, <2>1, <2>2, <2>3
<1>14. CASE scanner = "qe_identity"
  <2>1. Scan!Wanted = Scan!Document(doc.qeLevels)
    BY <1>14 DEF Scan!Wanted
  <2>2. Scan!End = Len(r) - 1
    BY <1>6, <1>14 DEF Scan!End
  <2>3. (x + y + z + 34) - 1 = x + y + z + 33
    OBVIOUS
  <2> QED
    BY <1>6, <1>7, <1>8, <1>14, <2>1, <2>2, <2>3
<1> QED
  BY <1>12, <1>13, <1>14, ScannersAre

(* The text is the collateral, or what is left of it.                      *)
CutFrom(t, r) ==
  t \in Seq(Char) /\ Len(t) <= Len(r) /\ \A i \in 1..Len(t) : t[i] = r[i]

(* How far a scan is whose name stands at p, its value w up to e: in the   *)
(* value it has kept the mode and the open brackets of every character.    *)
ScanReading(k, w, b) ==
  \E m, d : /\ Marks(w, b, m, d)
            /\ \A i \in 1..(Len(w) - 1) : d[i] >= 1
            /\ d[Len(w)] = 0
            /\ inString = (m[k] # "outside")
            /\ escaped = (m[k] = "escape")
            /\ depth = d[k]

ScanProgress(p, w, e) ==
  \/ stage = "find" /\ scanAt = 1 /\ depth = 0 /\ inString = FALSE /\ escaped = FALSE
  \/ /\ stage = "skip" /\ scanAt \in {p + 3, p + 4} /\ p + 2 <= Len(text)
     /\ depth = 0 /\ inString = FALSE /\ escaped = FALSE
  \/ /\ stage = "scan" /\ open = p + 4
     /\ scanAt \in Nat /\ open <= scanAt /\ scanAt <= e /\ scanAt <= Len(text) + 1
     /\ ScanReading(scanAt - open, w, Scan!Brackets[scanner])
  \/ stage = "found" /\ open = p + 4 /\ scanAt = e + 1 /\ e <= Len(text)
  \/ stage = "none" /\ Len(text) < e

ScanInv ==
  /\ doc \in Docs /\ scanner \in Scan!Scanner
  /\ CutFrom(text, Scan!Collateral(doc))
  /\ \E p : /\ Placed(Scan!Collateral(doc), scanner, p, Scan!Wanted, Scan!End)
            /\ ScanProgress(p, Scan!Wanted, Scan!End)

(* A scan begins before the name. *)
LEMMA ScanBegins == ASSUME Scan!Init PROVE ScanInv
<1>1. doc \in Docs /\ scanner \in Scan!Scanner
  BY DEF Scan!Init
<1>2. PICK p : Placed(Scan!Collateral(doc), scanner, p, Scan!Wanted, Scan!End)
  BY <1>1, WantedIs
<1>3. ScanProgress(p, Scan!Wanted, Scan!End)
  BY DEF Scan!Init, ScanProgress
<1>4. PICK r : r = Scan!Collateral(doc)
  OBVIOUS
<1>5. r \in Seq(Char)
  <2>1. doc \in Doc
    BY <1>1, DocIs
  <2> QED
    BY <1>4, <2>1, CollateralIs DEF IsLaidOut
<1>6. PICK n \in 0..Len(r) : text = SubSeq(r, 1, n)
  <2>1. Len(r) \in 0..Len(r)
    BY <1>5
  <2> QED
    BY <1>4, <2>1 DEF Scan!Init
<1>7. CutFrom(text, r)
  BY <1>5, <1>6 DEF CutFrom
<1> QED
  BY <1>1, <1>2, <1>3, <1>4, <1>7 DEF ScanInv

(* A step of a scan leaves the document and what is looked for alone. *)
LEMMA SameWanted ==
  ASSUME UNCHANGED <<doc, text, scanner>>, ScanInv
  PROVE  /\ Scan!Collateral(doc)' = Scan!Collateral(doc)
         /\ Scan!Wanted' = Scan!Wanted /\ Scan!End' = Scan!End
         /\ (doc \in Docs /\ scanner \in Scan!Scanner)'
         /\ CutFrom(text, Scan!Collateral(doc))'
<1>1. doc' = doc /\ text' = text /\ scanner' = scanner
  OBVIOUS
<1>2. Scan!Collateral(doc)' = Scan!Collateral(doc)
  BY <1>1
<1>3. Scan!Wanted' = Scan!Wanted /\ Scan!End' = Scan!End
  BY <1>1 DEF Scan!Wanted, Scan!End
<1> QED
  BY <1>1, <1>2, <1>3 DEF ScanInv

(* So its place stays, and only the progress is to be shown. *)
LEMMA OnlyProgress ==
  ASSUME UNCHANGED <<doc, text, scanner>>, ScanInv,
         NEW p, Placed(Scan!Collateral(doc), scanner, p, Scan!Wanted, Scan!End),
         NEW w, w = Scan!Wanted, NEW e, e = Scan!End, ScanProgress(p, w, e)'
  PROVE  ScanInv'
<1>1. PICK r : r = Scan!Collateral(doc)
  OBVIOUS
<1>2. Placed(r, scanner', p, w, e)
  BY <1>1
<1>3. Scan!Collateral(doc)' = r /\ Scan!Wanted' = w /\ Scan!End' = e
  BY <1>1, SameWanted
<1>4. /\ (doc \in Docs /\ scanner \in Scan!Scanner)'
      /\ CutFrom(text, Scan!Collateral(doc))'
  BY SameWanted
<1> QED
  BY <1>2, <1>3, <1>4 DEF ScanInv

(* A name in what is left of the collateral is one in the collateral.      *)
LEMMA CutNeedle ==
  ASSUME NEW r \in Seq(Char), NEW t, CutFrom(t, r), NEW name
  PROVE  \A i : i \in Scan!Needles(t, name) <=> i \in 1..(Len(t) - 2) /\ NeedleAt(r, i, name)
<1>1. t \in Seq(Char) /\ Len(t) <= Len(r) /\ \A i \in 1..Len(t) : t[i] = r[i]
  BY DEF CutFrom
<1>2. ASSUME NEW i \in 1..(Len(t) - 2) PROVE NeedleAt(t, i, name) <=> NeedleAt(r, i, name)
  <2>1. i \in 1..Len(t) /\ i + 1 \in 1..Len(t) /\ i + 2 \in 1..Len(t)
    BY <1>1
  <2>2. t[i] = r[i] /\ t[i + 1] = r[i + 1] /\ t[i + 2] = r[i + 2]
    BY <1>1, <2>1
  <2> QED
    BY <2>2 DEF NeedleAt
<1> QED
  BY <1>1, <1>2, NeedlesAre

(* What the steps of a scan start from. *)
At(p, r, w, e) ==
  /\ r \in Seq(Char) /\ CutFrom(text, r) /\ Placed(r, scanner, p, w, e)
  /\ r = Scan!Collateral(doc) /\ w = Scan!Wanted /\ e = Scan!End
  /\ ScanProgress(p, w, e)

(* And that is there. *)
LEMMA AtIs ==
  ASSUME ScanInv
  PROVE  \E p, r, w, e : At(p, r, w, e)
<1>1. PICK p : /\ Placed(Scan!Collateral(doc), scanner, p, Scan!Wanted, Scan!End)
               /\ ScanProgress(p, Scan!Wanted, Scan!End)
  BY DEF ScanInv
<1>2. PICK r : r = Scan!Collateral(doc)
  OBVIOUS
<1>3. PICK w : w = Scan!Wanted
  OBVIOUS
<1>4. PICK e : e = Scan!End
  OBVIOUS
<1>5. r \in Seq(Char)
  <2>1. doc \in Doc
    BY DocIs DEF ScanInv
  <2> QED
    BY <1>2, <2>1, CollateralIs DEF IsLaidOut
<1>6. CutFrom(text, r)
  BY <1>2 DEF ScanInv
<1>7. At(p, r, w, e)
  BY <1>1, <1>2, <1>3, <1>4, <1>5, <1>6 DEF At
<1> QED
  BY <1>7

(* The name that is found is the one of the wanted member. *)
LEMMA FindKeeps ==
  ASSUME NEW p, NEW r, NEW w, NEW e, At(p, r, w, e), Scan!Find
  PROVE  ScanProgress(p, w, e)'
<1>1. /\ p \in Nat /\ p >= 1 /\ Len(w) >= 2 /\ w \in Seq(Char) /\ e = p + 3 + Len(w)
      /\ NeedleAt(r, p, Scan!Name[scanner])
      /\ \A i \in 1..(p - 1) : ~NeedleAt(r, i, Scan!Name[scanner])
  BY DEF At, Placed
<1>2. PICK n : n = Len(text)
  OBVIOUS
<1>3. n \in Nat /\ text' = text
  BY <1>2 DEF At, CutFrom, Scan!Find
<1>4. \A i : i \in Scan!Found <=> i \in 1..(n - 2) /\ NeedleAt(r, i, Scan!Name[scanner])
  BY <1>2, CutNeedle DEF At, Scan!Found
<1>5. stage = "find" /\ depth' = 0 /\ inString' = FALSE /\ escaped' = FALSE
  BY DEF At, ScanProgress, Scan!Find
<1>6. e \in Nat /\ p + 5 <= e
  <2>1. PICK l \in Nat : l = Len(w)
    BY <1>1
  <2>2. l >= 2 /\ e = p + 3 + l
    BY <1>1, <2>1
  <2> QED
    BY <1>1, <2>1, <2>2
<1>7. CASE Scan!Found = {} /\ stage' = "none"
  <2>1. p \notin 1..(n - 2)
    BY <1>1, <1>4, <1>7
  <2>2. n < e
    BY <1>1, <1>3, <1>6, <2>1
  <2> QED
    BY <1>2, <1>3, <1>7, <2>2 DEF ScanProgress
<1>8. ASSUME NEW i \in Scan!Found, \A j \in Scan!Found : i <= j,
             stage' = "skip", scanAt' = i + 3
      PROVE  ScanProgress(p, w, e)'
  <2>1. i \in 1..(n - 2) /\ NeedleAt(r, i, Scan!Name[scanner])
    BY <1>4
  <2>2. p <= i
    BY <1>1, <2>1
  <2>3. p \in 1..(n - 2)
    BY <1>1, <1>3, <2>1, <2>2
  <2>4. p \in Scan!Found
    BY <1>1, <1>4, <2>3
  <2>5. i <= p
    BY <1>8, <2>4
  <2>6. i = p
    BY <1>1, <1>3, <2>1, <2>2, <2>5
  <2>7. scanAt' = p + 3 /\ p + 2 <= n
    BY <1>1, <1>3, <1>8, <2>3, <2>6
  <2> QED
    BY <1>2, <1>3, <1>5, <1>8, <2>7 DEF ScanProgress
<1> QED
  BY <1>7, <1>8 DEF Scan!Find

(* The colon is passed, and the value is begun where it begins. *)
LEMMA SkipKeeps ==
  ASSUME NEW p, NEW r, NEW w, NEW e, At(p, r, w, e), Scan!Skip
  PROVE  ScanProgress(p, w, e)'
<1>1. /\ p \in Nat /\ p >= 1 /\ Len(w) >= 2 /\ w \in Seq(Char) /\ e = p + 3 + Len(w)
      /\ NeedleAt(r, p, Scan!Name[scanner]) /\ r[p + 3] = ":" /\ Carries(r, p + 3, w)
      /\ w[1] = Scan!Brackets[scanner][1] /\ w[1] # ":"
      /\ IsValue(w, Scan!Brackets[scanner])
  BY DEF At, Placed
<1>2. PICK n : n = Len(text)
  OBVIOUS
<1>3. PICK b : b = Scan!Brackets[scanner]
  OBVIOUS
<1>4. /\ n \in Nat /\ text' = text /\ scanner' = scanner
      /\ \A i \in 1..n : text[i] = r[i]
  BY <1>2 DEF At, CutFrom, Scan!Skip
<1>5. /\ scanAt \in {p + 3, p + 4} /\ p + 2 <= n
      /\ depth = 0 /\ inString = FALSE /\ escaped = FALSE
  BY <1>2 DEF At, ScanProgress, Scan!Skip
<1>6. depth' = 0 /\ inString' = FALSE /\ escaped' = FALSE
  BY <1>5 DEF Scan!Skip
<1>7. e \in Nat /\ p + 5 <= e
  <2>1. PICK l \in Nat : l = Len(w)
    BY <1>1
  <2>2. l >= 2 /\ e = p + 3 + l
    BY <1>1, <2>1
  <2> QED
    BY <1>1, <2>1, <2>2
<1>8. r[p + 4] = w[1]
  <2>1. 1 \in 1..Len(w) /\ (p + 3) + 1 = p + 4
    BY <1>1
  <2>2. r[(p + 3) + 1] = w[1]
    BY <1>1, <2>1 DEF Carries
  <2> QED
    BY <2>1, <2>2
<1>9. Scan!IsAt(b[1]) <=> scanAt <= n /\ text[scanAt] = b[1]
  BY <1>1, <1>2, <1>4, <1>5 DEF Scan!IsAt, Scan!Over
<1>10. ASSUME n < scanAt, stage' = "none" PROVE ScanProgress(p, w, e)'
  <2>1. n < e
    BY <1>1, <1>4, <1>5, <1>7, <1>10
  <2> QED
    BY <1>2, <1>4, <1>10, <2>1 DEF ScanProgress
<1>11. CASE Scan!IsAt(b[1])
  <2>1. scanAt <= n /\ text[scanAt] = b[1] /\ b[1] = w[1]
    BY <1>1, <1>3, <1>9, <1>11
  <2>2. scanAt \in 1..n
    BY <1>1, <1>4, <1>5, <2>1
  <2>3. scanAt # p + 3
    BY <1>1, <1>4, <2>1, <2>2
  <2>4. scanAt = p + 4
    BY <1>5, <2>3
  <2>5. stage' = "scan" /\ open' = scanAt /\ scanAt' = scanAt
    BY <1>3, <1>11 DEF Scan!Skip
  <2>6. PICK m, d : /\ Marks(w, b, m, d) /\ d[Len(w)] = 0
                    /\ \A i \in 1..(Len(w) - 1) : d[i] >= 1
    BY <1>1, <1>3 DEF IsValue
  <2>7. m[0] = "outside" /\ d[0] = 0
    BY <2>6 DEF Marks
  <2>8. PICK k : k = 0
    OBVIOUS
  <2>9. ScanReading(k, w, b)'
    <3>1. inString' = (m[k] # "outside") /\ escaped' = (m[k] = "escape") /\ depth' = d[k]
      BY <1>6, <2>7, <2>8
    <3> QED
      BY <2>6, <3>1 DEF ScanReading
  <2>10. scanAt' - open' = k
    BY <1>1, <2>4, <2>5, <2>8
  <2>11. /\ open' = p + 4 /\ scanAt' \in Nat /\ open' <= scanAt' /\ scanAt' <= e
         /\ scanAt' <= n + 1
    BY <1>1, <1>4, <1>7, <2>1, <2>4, <2>5
  <2>12. ScanReading(scanAt - open, w, Scan!Brackets[scanner])'
    BY <1>3, <1>4, <2>9, <2>10 DEF ScanReading
  <2> QED
    BY <1>2, <1>4, <2>5, <2>11, <2>12 DEF ScanProgress
<1>12. CASE ~Scan!IsAt(b[1])
  <2>1. CASE n < scanAt
    <3>1. Scan!Over
      BY <1>1, <1>2, <1>4, <1>5, <2>1 DEF Scan!Over
    <3>2. stage' = "none"
      BY <1>3, <1>12, <3>1 DEF Scan!Skip
    <3> QED
      BY <1>10, <2>1, <3>2
  <2>2. CASE ~(n < scanAt)
    <3>1. scanAt <= n /\ scanAt \in 1..n /\ text[scanAt] # b[1]
      BY <1>1, <1>4, <1>5, <1>9, <1>12, <2>2
    <3>2. scanAt # p + 4
      BY <1>1, <1>3, <1>4, <1>8, <3>1
    <3>3. scanAt = p + 3
      BY <1>5, <3>2
    <3>4. text[scanAt] = ":" /\ scanAt - 1 = p + 2 /\ p + 2 \in 1..n
      BY <1>1, <1>4, <1>5, <3>1, <3>3
    <3>5. text[scanAt - 1] = Scan!Quote
      BY <1>1, <1>4, <3>4 DEF NeedleAt
    <3>6. ~Scan!Over
      BY <1>1, <1>2, <1>4, <1>5, <3>1 DEF Scan!Over
    <3>7. Scan!IsAt(":")
      BY <3>4, <3>6 DEF Scan!IsAt
    <3>8. scanAt' = scanAt + 1 /\ stage' = stage /\ stage = "skip"
      BY <1>3, <1>12, <3>5, <3>6, <3>7 DEF Scan!Skip
    <3>9. scanAt' = p + 4
      BY <1>1, <3>3, <3>8
    <3> QED
      BY <1>2, <1>4, <1>5, <1>6, <3>8, <3>9 DEF ScanProgress
  <2> QED
    BY <2>1, <2>2
<1> QED
  BY <1>11, <1>12

(* A character of the value moves the mode and the count of brackets as    *)
(* JSON does.                                                              *)
LEMMA CharacterRead ==
  ASSUME NEW m0, NEW m1, NEW d0 \in Int, NEW d1 \in Int, NEW c, NEW b, c = text[scanAt],
         m1 = Scan!After(m0, c), d1 = d0 + Scan!Opens(m0, c, b), b = Scan!Brackets[scanner],
         inString = (m0 # "outside"), escaped = (m0 = "escape"), depth = d0, Scan!Scan
  PROVE  inString' = (m1 # "outside") /\ escaped' = (m1 = "escape") /\ depth' = d1
<1>0. Scan!Quote # Scan!Backslash
  BY Characters
<1>1. CASE m0 = "outside"
  <2>1. ~inString /\ ~escaped
    BY <1>1
  <2>2. inString' = (c = Scan!Quote) /\ escaped' = escaped
    BY <2>1 DEF Scan!Scan, Scan!Outside
  <2>3. depth' = d1
    <3>1. /\ c = b[1] => depth' = d0 + 1
          /\ c # b[1] /\ c = b[2] => depth' = d0 - 1
          /\ c # b[1] /\ c # b[2] => depth' = d0
      BY <2>1 DEF Scan!Scan
    <3>2. /\ c = b[1] => Scan!Opens(m0, c, b) = 1
          /\ c # b[1] /\ c = b[2] => Scan!Opens(m0, c, b) = -1
          /\ c # b[1] /\ c # b[2] => Scan!Opens(m0, c, b) = 0
      BY <1>1 DEF Scan!Opens
    <3>3. CASE c = b[1]
      BY <3>1, <3>2, <3>3
    <3>4. CASE c # b[1] /\ c = b[2]
      BY <3>1, <3>2, <3>4
    <3>5. CASE c # b[1] /\ c # b[2]
      BY <3>1, <3>2, <3>5
    <3> QED
      BY <3>3, <3>4, <3>5
  <2>4. m1 = IF c = Scan!Quote THEN "inside" ELSE "outside"
    BY <1>1 DEF Scan!After
  <2>5. inString' = (m1 # "outside") /\ escaped' = (m1 = "escape")
    <3>1. CASE c = Scan!Quote
      BY <2>1, <2>2, <2>4, <3>1
    <3>2. CASE c # Scan!Quote
      BY <2>1, <2>2, <2>4, <3>2
    <3> QED
      BY <3>1, <3>2
  <2> QED
    BY <2>3, <2>5
<1>2. CASE m0 # "outside"
  <2>1. inString
    BY <1>2
  <2>2. /\ escaped' = (~escaped /\ c = Scan!Backslash)
        /\ inString' = (escaped \/ c # Scan!Quote)
    BY <2>1 DEF Scan!Scan, Scan!Inside
  <2>3. depth' = d1
    <3>1. depth' = depth
      BY <2>1 DEF Scan!Scan
    <3>2. Scan!Opens(m0, c, b) = 0
      BY <1>2 DEF Scan!Opens
    <3> QED
      BY <3>1, <3>2
  <2>4. inString' = (m1 # "outside") /\ escaped' = (m1 = "escape")
    <3>1. CASE m0 = "escape"
      <4>1. m1 = "inside"
        BY <3>1 DEF Scan!After
      <4> QED
        BY <2>2, <3>1, <4>1
    <3>2. CASE m0 # "escape" /\ c = Scan!Quote
      <4>1. m1 = "outside"
        BY <1>2, <3>2 DEF Scan!After
      <4> QED
        BY <1>0, <2>2, <3>2, <4>1
    <3>3. CASE m0 # "escape" /\ c = Scan!Backslash
      <4>1. m1 = "escape"
        BY <1>0, <1>2, <3>3 DEF Scan!After
      <4> QED
        BY <1>0, <2>2, <3>3, <4>1
    <3>4. CASE m0 # "escape" /\ c # Scan!Quote /\ c # Scan!Backslash
      <4>1. m1 = m0
        BY <1>2, <3>4 DEF Scan!After
      <4> QED
        BY <1>2, <2>2, <3>4, <4>1
    <3> QED
      BY <3>1, <3>2, <3>3, <3>4
  <2> QED
    BY <2>3, <2>4
<1> QED
  BY <1>1, <1>2

(* A step of the scan stays inside the value until the value is complete.  *)
LEMMA ScanKeeps ==
  ASSUME NEW p, NEW r, NEW w, NEW e, At(p, r, w, e), Scan!Scan
  PROVE  ScanProgress(p, w, e)'
<1>1. p \in Nat /\ Len(w) >= 2 /\ w \in Seq(Char) /\ e = p + 3 + Len(w) /\ Carries(r, p + 3, w)
  BY DEF At, Placed
<1>2. PICK n : n = Len(text)
  OBVIOUS
<1>3. PICK l \in Nat : l = Len(w)
  BY <1>1
<1>4. PICK b : b = Scan!Brackets[scanner]
  OBVIOUS
<1>5. /\ n \in Nat /\ text' = text /\ scanner' = scanner /\ open' = open
      /\ \A i \in 1..n : text[i] = r[i]
  BY <1>2 DEF At, CutFrom, Scan!Scan
<1>6. /\ open = p + 4 /\ scanAt \in Nat /\ open <= scanAt /\ scanAt <= e /\ scanAt <= n + 1
      /\ ScanReading(scanAt - open, w, b)
  BY <1>2, <1>4 DEF At, ScanProgress, Scan!Scan
<1>7. e = p + 3 + l /\ l >= 2
  BY <1>1, <1>3
<1>8. PICK k : k = scanAt - open
  OBVIOUS
<1>9. k \in 0..(l - 1) /\ scanAt = p + 3 + (k + 1) /\ scanAt \in Nat
  BY <1>1, <1>6, <1>7, <1>8
<1>10. PICK m, d : /\ Marks(w, b, m, d)
                   /\ \A i \in 1..(Len(w) - 1) : d[i] >= 1
                   /\ d[Len(w)] = 0
                   /\ inString = (m[k] # "outside")
                   /\ escaped = (m[k] = "escape")
                   /\ depth = d[k]
  BY <1>6, <1>8 DEF ScanReading
<1>11. scanAt <= n /\ scanAt' = scanAt + 1
       /\ stage' = IF depth' = 0 THEN "found" ELSE "scan"
  <2>1. ~Scan!Over /\ scanAt' = scanAt + 1 /\ stage' = IF depth' = 0 THEN "found" ELSE "scan"
    BY DEF Scan!Scan
  <2>2. ~(scanAt > n)
    BY <1>2, <2>1 DEF Scan!Over
  <2> QED
    BY <1>5, <1>9, <2>1, <2>2
<1>12. PICK q : q = k + 1
  OBVIOUS
<1>13. q \in 1..l /\ q - 1 = k /\ scanAt = (p + 3) + q /\ q \in 0..l /\ k \in 0..l
  BY <1>1, <1>3, <1>9, <1>12
<1>14. text[scanAt] = w[q]
  <2>1. scanAt \in 1..n
    <3>1. p \in Nat /\ scanAt >= 1
      BY <1>1, <1>13
    <3> QED
      BY <1>5, <1>9, <1>11, <3>1
  <2>2. r[(p + 3) + q] = w[q]
    BY <1>1, <1>3, <1>13 DEF Carries
  <2> QED
    BY <1>5, <1>13, <2>1, <2>2
<1>15. /\ m[q] = Scan!After(m[k], w[q]) /\ d[q] = d[k] + Scan!Opens(m[k], w[q], b)
       /\ d[q] \in Int /\ d[k] \in Int
  BY <1>3, <1>10, <1>13 DEF Marks
<1>16. inString' = (m[q] # "outside") /\ escaped' = (m[q] = "escape") /\ depth' = d[q]
  BY <1>4, <1>10, <1>14, <1>15, CharacterRead
<1>17. CASE q = l
  <2>1. depth' = 0
    BY <1>3, <1>10, <1>16, <1>17
  <2>2. stage' = "found"
    BY <1>11, <2>1
  <2>3. scanAt' = e + 1 /\ e <= n /\ open' = p + 4
    BY <1>1, <1>5, <1>6, <1>7, <1>11, <1>13, <1>17
  <2> QED
    BY <1>2, <1>5, <2>2, <2>3 DEF ScanProgress
<1>18. CASE q # l
  <2>1. q \in 1..(l - 1)
    BY <1>13, <1>18
  <2>2. depth' # 0
    <3>1. d[q] >= 1
      BY <1>3, <1>10, <2>1
    <3> QED
      BY <1>15, <1>16, <3>1
  <2>3. stage' = "scan"
    BY <1>11, <2>2
  <2>4. /\ open' = p + 4 /\ scanAt' \in Nat /\ open' <= scanAt' /\ scanAt' <= e
        /\ scanAt' <= n + 1 /\ scanAt' - open' = q
    BY <1>1, <1>3, <1>5, <1>6, <1>7, <1>11, <1>13, <2>1
  <2>5. ScanReading(q, w, b)'
    BY <1>10, <1>16 DEF ScanReading
  <2>6. ScanReading(scanAt - open, w, Scan!Brackets[scanner])'
    BY <1>4, <1>5, <2>4, <2>5 DEF ScanReading
  <2> QED
    BY <1>2, <1>5, <2>3, <2>4, <2>6 DEF ScanProgress
<1> QED
  BY <1>17, <1>18

(* A text that ends in the value is cut before the value ends. *)
LEMMA UnbalancedKeeps ==
  ASSUME NEW p, NEW r, NEW w, NEW e, At(p, r, w, e), Scan!Unbalanced
  PROVE  ScanProgress(p, w, e)'
<1>1. PICK n : n = Len(text)
  OBVIOUS
<1>2. n \in Nat /\ text' = text
  BY <1>1 DEF At, CutFrom, Scan!Unbalanced
<1>3. stage' = "none" /\ scanAt > n
  BY <1>1 DEF Scan!Unbalanced, Scan!Over
<1>4. scanAt \in Nat /\ scanAt <= e
  BY DEF At, ScanProgress, Scan!Unbalanced
<1>5. p \in Nat /\ Len(w) \in Nat /\ e = p + 3 + Len(w)
  BY DEF At, Placed
<1>6. n < e
  BY <1>2, <1>3, <1>4, <1>5
<1> QED
  BY <1>1, <1>2, <1>3, <1>6 DEF ScanProgress

(* Every step of a scan keeps it at the value it is for. *)
LEMMA ScanStep == ScanInv /\ [Scan!Next]_scanVars => ScanInv'
<1>1. ASSUME ScanInv, Scan!Next PROVE ScanInv'
  <2>1. PICK p, r, w, e : At(p, r, w, e)
    BY <1>1, AtIs
  <2>2. ScanProgress(p, w, e)'
    BY <1>1, <2>1, FindKeeps, SkipKeeps, ScanKeeps, UnbalancedKeeps DEF Scan!Next
  <2>3. UNCHANGED <<doc, text, scanner>>
    BY <1>1 DEF Scan!Next, Scan!Find, Scan!Skip, Scan!Scan, Scan!Unbalanced
  <2>4. /\ Placed(Scan!Collateral(doc), scanner, p, Scan!Wanted, Scan!End)
        /\ w = Scan!Wanted /\ e = Scan!End
    BY <2>1 DEF At
  <2> QED
    BY <1>1, <2>2, <2>3, <2>4, OnlyProgress
<1>2. ASSUME ScanInv, UNCHANGED scanVars PROVE ScanInv'
  <2>1. PICK p, r, w, e : At(p, r, w, e)
    BY <1>2, AtIs
  <2>2. /\ doc' = doc /\ text' = text /\ scanner' = scanner /\ stage' = stage /\ scanAt' = scanAt
        /\ open' = open /\ depth' = depth /\ inString' = inString /\ escaped' = escaped
    BY <1>2 DEF scanVars
  <2>3. ScanProgress(p, w, e)'
    BY <2>1, <2>2 DEF At, ScanProgress, ScanReading
  <2>4. UNCHANGED <<doc, text, scanner>>
    BY <2>2
  <2>5. /\ Placed(Scan!Collateral(doc), scanner, p, Scan!Wanted, Scan!End)
        /\ w = Scan!Wanted /\ e = Scan!End
    BY <2>1 DEF At
  <2> QED
    BY <1>2, <2>3, <2>4, <2>5, OnlyProgress
<1> QED
  BY <1>1, <1>2

(* What a scan ends with is the value, or the text ends before it.         *)
LEMMA ScanEnds == ScanInv => Scan!ScanExact
<1>1. SUFFICES ASSUME ScanInv PROVE Scan!ScanExact
  OBVIOUS
<1>2. PICK p, r, w, e : At(p, r, w, e)
  BY <1>1, AtIs
<1>3. w = Scan!Wanted /\ e = Scan!End
  BY <1>2 DEF At
<1>4. CASE stage = "none"
  <2>1. Len(text) < e
    BY <1>2, <1>4 DEF At, ScanProgress
  <2> QED
    BY <1>3, <1>4, <2>1 DEF Scan!ScanExact
<1>5. CASE stage = "found"
  <2>1. open = p + 4 /\ scanAt = e + 1 /\ e <= Len(text)
    BY <1>2, <1>5 DEF At, ScanProgress
  <2>2. /\ p \in Nat /\ w \in Seq(Char) /\ e = p + 3 + Len(w) /\ Carries(r, p + 3, w)
    BY <1>2 DEF At, Placed
  <2>3. text \in Seq(Char) /\ \A i \in 1..Len(text) : text[i] = r[i]
    BY <1>2 DEF At, CutFrom
  <2>4. PICK l \in Nat : l = Len(w)
    BY <2>2
  <2>5. PICK n \in Nat : n = Len(text)
    BY <2>3
  <2>6. scanAt - 1 = e /\ e = p + 3 + l /\ e \in Nat /\ e <= n
    BY <2>1, <2>2, <2>4, <2>5
  <2>7. PICK s : s = SubSeq(text, open, scanAt - 1)
    OBVIOUS
  <2>8. s = SubSeq(text, p + 4, e)
    BY <2>1, <2>6, <2>7
  <2>9. Len(s) = l /\ s \in Seq(Char) /\ \A i \in 1..l : s[i] = text[(p + 3) + i]
    <3>1. p + 4 >= 1 /\ e - (p + 4) + 1 = l /\ \A i \in 1..l : (p + 4) + i - 1 = (p + 3) + i
      BY <2>2, <2>6
    <3>2. PICK a \in Nat : a = p + 4
      BY <2>2
    <3>3. s = SubSeq(text, a, e)
      BY <2>8, <3>2
    <3>4. /\ Len(s) = IF a <= e THEN e - a + 1 ELSE 0
          /\ s \in Seq(Char) /\ \A i \in 1..(e - a + 1) : s[i] = text[a + i - 1]
      BY <2>3, <2>5, <2>6, <3>1, <3>2, <3>3
    <3> QED
      BY <2>2, <2>4, <2>6, <3>1, <3>2, <3>4
  <2>10. ASSUME NEW i \in 1..l PROVE s[i] = w[i]
    <3>1. (p + 3) + i \in 1..n
      BY <2>2, <2>6
    <3>2. text[(p + 3) + i] = r[(p + 3) + i]
      BY <2>3, <2>5, <3>1
    <3>3. r[(p + 3) + i] = w[i]
      BY <2>2, <2>4 DEF Carries
    <3> QED
      BY <2>9, <3>2, <3>3
  <2>11. s = w
    <3>1. s = [i \in 1..l |-> s[i]]
      BY <2>9
    <3>2. w = [i \in 1..l |-> w[i]]
      BY <2>2, <2>4
    <3> QED
      BY <2>10, <3>1, <3>2
  <2> QED
    BY <1>3, <1>5, <2>6, <2>7, <2>11 DEF Scan!ScanExact
<1> QED
  BY <1>4, <1>5 DEF Scan!ScanExact

(* A bracket scan finds exactly the value it is for, and nothing only when *)
(* the text is cut before the value ends (tcb_levels_range, and            *)
(* extract_raw_object of the corpus build).                                *)
THEOREM ScansAreExact == ReadersSpec => []ScanExact
<1>1. ReadersInit => ScanInv
  BY ScanBegins DEF ReadersInit, ScanParked
<1>2. ScanInv /\ [ReadersNext]_<<reader, vars, visitorVars, scanVars, recordVars>> => ScanInv'
  BY ScanStep DEF ReadersNext
<1>3. ScanInv => ScanExact
  BY ScanEnds DEF ScanExact
<1> QED
  BY <1>1, <1>2, <1>3, PTL DEF ReadersSpec
=============================================================================
