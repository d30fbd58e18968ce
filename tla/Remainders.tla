----------------------------- MODULE Remainders -----------------------------
(***************************************************************************)
(* Facts about remainders: of a position in a ring, of an address in its   *)
(* page, of a count that wraps.                                            *)
(***************************************************************************)
EXTENDS Integers, TLAPS

LEMMA DivMod ==
    ASSUME NEW x \in Nat, NEW n \in Nat \ {0}
    PROVE  /\ x \div n \in Nat /\ x % n \in 0 .. n - 1
           /\ x = n * (x \div n) + (x % n)
  BY SMT

LEMMA RemainderUnique ==
    ASSUME NEW n \in Nat \ {0}, NEW q \in Int, NEW r \in 0 .. n - 1, NEW x \in Nat,
           x = n * q + r
    PROVE  x % n = r
  BY SMT

LEMMA Multiple ==
    ASSUME NEW n \in Nat \ {0}, NEW q \in Int, NEW x \in Nat, x = n * q
    PROVE  x % n = 0
  BY SMT

LEMMA SmallRemainder ==
    ASSUME NEW n \in Nat \ {0}, NEW x \in Nat
    PROVE  x % n <= x /\ (x < n => x % n = x)
  BY SMT

\* The chip counts an address up within its page: as long as the page does not
\* end, that is the next address.
LEMMA Paging ==
    ASSUME NEW p \in Nat \ {0}, NEW f \in Nat, NEW d \in Nat, d < p - (f % p)
    PROVE  (f - (f % p)) + ((f + d) % p) = f + d
  <1> DEFINE q == f \div p
             r == f % p
  <1>1. q \in Nat /\ r \in 0 .. p - 1 /\ f = p * q + r
    BY DivMod
  <1>2. r + d \in 0 .. p - 1 /\ f + d \in Nat
    BY <1>1
  <1> HIDE DEF q, r
  <1>3. f + d = p * q + (r + d)
    BY <1>1
  <1>4. (f + d) % p = r + d
    BY <1>1, <1>2, <1>3, RemainderUnique
  <1>5. (f - r) + (r + d) = f + d
    BY <1>1
  <1> QED
    BY <1>4, <1>5 DEF r
=============================================================================
