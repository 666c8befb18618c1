---------------------------- MODULE NoDoubleSale ----------------------------
(***************************************************************************)
(* What the booking system promises about a home, whatever tables, checks  *)
(* and workers keep the promise: it is taken by one tenant at a time, and  *)
(* another can take it only after the first has let it go.                 *)
(***************************************************************************)
CONSTANTS Homes, Tenants

VARIABLE tenants   \* the bookings that hold or have booked each home

Init == tenants = [h \in Homes |-> {}]

Take(h, t) ==
  /\ tenants[h] = {}
  /\ tenants' = [tenants EXCEPT ![h] = {t}]

Release(h) ==
  /\ tenants[h] # {}
  /\ tenants' = [tenants EXCEPT ![h] = {}]

Next == \E h \in Homes : Release(h) \/ \E t \in Tenants : Take(h, t)

Spec == Init /\ [][Next]_tenants

=============================================================================
