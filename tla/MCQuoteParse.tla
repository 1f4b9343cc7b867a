---------------------------- MODULE MCQuoteParse ----------------------------
(***************************************************************************)
(* Buffers around a quote with two bytes of authentication data and a      *)
(* certificate chain of three: cut at and next to every field boundary,    *)
(* continued, with lengths that disagree, and two quotes in a row.         *)
(***************************************************************************)
EXTENDS QuoteParse, SequencesExt

Low(n, i) == (n \div 256 ^ i) % 256

(* A buffer whose length fields hold sigLen, authLen and certLen. *)
MCBuffer(len, version, keyType, sigLen, authLen, certType, certLen) ==
  LET cert == 1014 + authLen
      byte(p) ==
        CASE p = 0 -> version
          [] p = 2 -> keyType
          [] p \in 432..435 -> Low(sigLen, p - 432)
          [] p \in 1012..1013 -> Low(authLen, p - 1012)
          [] p = cert -> certType
          [] p \in (cert + 2)..(cert + 5) -> Low(certLen, p - cert - 2)
          [] OTHER -> 0
  IN [i \in 1..len |-> byte(i - 1)]

Exact == MCBuffer(1025, 3, 2, 589, 2, 5, 3)

Boundaries == {0, 2, 4, 8, 10, 12, 28, 48, 112, 432, 436, 500, 564, 948, 1012, 1014, 1016, 1018, 1022, 1024}

Cut == {SubSeq(Exact, 1, b + d) : b \in Boundaries, d \in {-1, 0, 1}}

(* The section may be shorter than the buffer, and end inside a field. *)
Disagreeing ==
  {MCBuffer(1030, 3, 2, sigLen, authLen, 5, certLen) :
     sigLen \in {0, 64, 576, 578, 583, 588, 589, 590, 594, 595, 2147480000},
     authLen \in {0, 2, 3, 8, 65535},
     certLen \in {0, 2, 3, 8, 2147480000}}

Unsupported ==
  {MCBuffer(1025, 4, 2, 589, 2, 5, 3), MCBuffer(1025, 3, 3, 589, 2, 5, 3),
   MCBuffer(1025, 3, 2, 589, 2, 6, 3)}

MCBuffers ==
  Cut \cup Disagreeing \cup Unsupported
  \cup {Exact \o Exact, Exact \o SubSeq(Exact, 1, 1024), Exact \o <<3, 0, 2>>}
=============================================================================
