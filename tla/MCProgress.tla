----------------------------- MODULE MCProgress -----------------------------
(* Small instances of the modules whose liveness is checked: the bookings of *)
(* one home, and the start of a process.  They share no variables.           *)
EXTENDS MCBookings, Startup

VARIABLE part

progressVars == <<part, vars, startupVars>>

ProgressInit == part \in {"bookings", "startup"} /\ Init /\ StartupInit

ProgressNext ==
  /\ UNCHANGED part
  /\ \/ part = "bookings" /\ Next /\ UNCHANGED startupVars
     \/ part = "startup" /\ StartupNext /\ UNCHANGED vars

(* Fairness of Bookings, where it takes the steps. *)
BookingFairness ==
  /\ \A b \in BookingIds :
       /\ WF_progressVars(part = "bookings" /\ Lapse(b) /\ UNCHANGED <<part, startupVars>>)
       /\ WF_progressVars(part = "bookings" /\ Worker(b) /\ UNCHANGED <<part, startupVars>>)
  /\ \A h \in Handlers :
       WF_progressVars(/\ part = "bookings"
                       /\ HandlerStep(h) \/ Abort(h)
                       /\ UNCHANGED <<part, startupVars>>)

ProgressSpec ==
  /\ ProgressInit /\ [][ProgressNext]_progressVars
  /\ BookingFairness
  /\ part = "startup" => StartupFairness

(* Redis and Postgres are reached however long they are away at first        *)
(* (startup.utils.ts retryDependency), where the process takes the steps.    *)
StartReachesServers == part = "startup" => ServersAreReached

=============================================================================
