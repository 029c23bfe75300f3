----------------------------- MODULE MCMovebits -----------------------------
(* All lists of two fragments, and some of three, in a small memory.         *)
EXTENDS Movebits

CONSTANTS MaxLen, Short

Fits(f) == f.dst + f.len <= M /\ f.src + f.len <= M
Frags(n) == {f \in [dst : Addrs, src : Addrs, len : 1 .. n] : Fits(f)}

\* Destinations are apart; sources may be the same, or overlap.
Disjoint(a, m, b, n) == a + m <= b \/ b + n <= a
Apart(f, g) == Disjoint(f.dst, f.len, g.dst, g.len)

\* To bound the lists of three: sources with just a byte in common are left out.
Distinct(f, g) ==
    /\ Apart(f, g)
    /\ \/ Disjoint(f.src, f.len, g.src, g.len)
       \/ ~Disjoint(f.src + 1, f.len - 1, g.src, g.len - 1)

MCFraglists ==
    {l \in Frags(MaxLen) \X Frags(MaxLen) : Apart(l[1], l[2])}
    \cup {l \in Frags(Short) \X Frags(Short) \X Frags(Short) :
             Distinct(l[1], l[2]) /\ Distinct(l[1], l[3]) /\ Distinct(l[2], l[3])}

MCMemmaps ==
    {<<Adding(0, M - 1, "FREE")>>,
     <<Adding(0, 2, "FREE"), Adding(2, 2, "TERMINAL"), Adding(4, M - 5, "FREE"),
       Adding(M - 1, 1, "RESERVED")>>,
     <<Adding(0, 2, "FREE"), Adding(2, 1, "RESERVED"), Adding(3, M - 3, "ZERO")>>}
=============================================================================
