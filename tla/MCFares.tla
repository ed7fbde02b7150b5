------------------------------ MODULE MCFares ------------------------------
EXTENDS Fares, TLC
CONSTANTS out, back, s1, s2, p1, A, B, C, D, r1, r2

MCRoute == (out :> <<A, B, C, D>>) @@ (back :> <<D, C, B, A>>)
MCClass == [s \in {s1, s2} |-> "economy"]
MCCapacity == [p \in {p1} |-> 2]
MCWeekday == (out :> 4) @@ (back :> 0)

Demo == [currency |-> "PHP", base |-> ("economy" :> 10000) @@ (p1 :> 30000),
         peak |-> {4}, peakBp |-> 1500, occupancy |-> (5000 :> 1000) @@ (8000 :> 2500),
         advance |-> (7 :> 1000) @@ (14 :> 2000), promoBp |-> 500,
         passenger |-> ("adult" :> 0) @@ ("senior" :> 2000) @@ ("none" :> 0), roundBp |-> 1000]

\* The next season: dearer, in another currency, and the pool is not for sale.
Season == [Demo EXCEPT !.currency = "USD", !.base = ("economy" :> 20000), !.occupancy = (0 :> 300)]
MCPolicy == (r1 :> Demo) @@ (r2 :> Season)

Item(u, o, d, n, type) == [unit |-> u, origin |-> o, destination |-> d, quantity |-> n, type |-> type]
Journey(t, items)      == [trip |-> t, items |-> items]

Senior == <<Journey(out, <<Item(s1, A, D, 1, "senior")>>)>>
Return == <<Journey(out, <<Item(s1, A, D, 1, "adult")>>), Journey(back, <<Item(p1, D, A, 2, "none")>>)>>
Other  == <<Journey(out, <<Item(s2, B, D, 1, "adult")>>), Journey(back, <<Item(p1, D, B, 1, "none")>>)>>
MCAsks == {[cart |-> Senior, promo |-> TRUE], [cart |-> Return, promo |-> FALSE]}
\* A seat twice: the second line is refused, and the order with it.
Twice  == <<Journey(out, <<Item(s2, A, B, 1, "adult"), Item(s2, B, D, 1, "adult")>>)>>
MCWalkups == {Other, Twice}

Symmetry == Permutations(Switchers)
=============================================================================
