----------------------------- MODULE Collector -----------------------------
(* The market data collector (src/rust/src/ingestion/collector.rs), for one *)
(* exchange: start and stop, and the connection loops that successive       *)
(* starts spawn.  The loops share the shutdown flag, which start resets,    *)
(* the status of the exchange and the channel of events, and each has a     *)
(* cancellation token, of which the collector keeps the latest.             *)
(*                                                                          *)
(* A step ends at each await and between the write of a status and the send *)
(* of its event, which no lock holds together in a loop.  stop keeps the    *)
(* read lock on the tokens to its end, and a start that would insert one    *)
(* waits for it.  Nothing bounds a connection attempt, and only the read    *)
(* and the backoff are selected together with the token.                    *)
EXTENDS Naturals

CONSTANTS Starts,       \* bound: the calls of start
          Stops,        \* bound: the calls of stop
          MaxAttempts   \* config.max_reconnect_attempts

ASSUME CollectorAssumption ==
  Starts \in Nat /\ Stops \in Nat /\ MaxAttempts \in Nat \ {0}

Runs == 1..Starts
Nothing == "nothing"
Places == {"none", "top", "reconnecting", "connecting", "subscribing", "reading", "check",
           "backoff", "leaving", "ended"}
ConnectionStatus == {"Connected", "Disconnected", "Reconnecting", "Error"}

VARIABLES shutdown,    \* the flag
          token,       \* the loop whose token is kept, 0 for none
          revoked,   \* the loops whose token is cancelled
          at,          \* where each loop is
          attempts,    \* its failures since it was last connected
          unsent,      \* the event it has still to send, after a status it wrote
          connection,  \* statuses[exchange]
          announced,   \* the last status sent on the channel
          starting,    \* a start between the flag and the spawn
          stopping,    \* where stop is
          calls        \* the calls of stop so far

collectorVars == <<shutdown, token, revoked, at, attempts, unsent, connection,
                   announced, starting, stopping, calls>>

CollectorTypeOK ==
  /\ shutdown \in BOOLEAN
  /\ token \in 0..Starts
  /\ revoked \in SUBSET Runs
  /\ at \in [Runs -> Places]
  /\ attempts \in [Runs -> 0..MaxAttempts]
  /\ unsent \in [Runs -> ConnectionStatus \cup {Nothing}]
  /\ connection \in ConnectionStatus
  /\ announced \in ConnectionStatus \cup {Nothing}
  /\ starting \in BOOLEAN
  /\ stopping \in {"no", "flagged", "cancelled"}
  /\ calls \in 0..Stops

CollectorInit ==
  /\ shutdown = FALSE
  /\ token = 0
  /\ revoked = {}
  /\ at = [i \in Runs |-> "none"]
  /\ attempts = [i \in Runs |-> 0]
  /\ unsent = [i \in Runs |-> Nothing]
  /\ connection = "Disconnected"
  /\ announced = Nothing
  /\ starting = FALSE
  /\ stopping = "no"
  /\ calls = 0

Spawned == {i \in Runs : at[i] # "none"}

callerVars == <<starting, stopping, calls>>
loopVars == <<at, attempts, unsent>>

----------------------------------------------------------------------------
(* start: the flag is reset first; then the new token replaces the one that *)
(* is kept, and the loop is spawned.                                        *)
Start ==
  /\ ~starting
  /\ Spawned # Runs
  /\ starting' = TRUE
  /\ shutdown' = FALSE
  /\ UNCHANGED <<token, revoked, loopVars, connection, announced, stopping, calls>>

Spawn(i) ==
  /\ starting
  /\ stopping # "cancelled"
  /\ at[i] = "none" /\ \A j \in Runs : j < i => at[j] # "none"
  /\ starting' = FALSE
  /\ token' = i
  /\ at' = [at EXCEPT ![i] = "top"]
  /\ UNCHANGED <<shutdown, revoked, attempts, unsent, connection, announced,
                 stopping, calls>>

(* stop: the flag, then the tokens, then the status and its event. *)
Stop ==
  /\ stopping = "no"
  /\ calls < Stops
  /\ calls' = calls + 1
  /\ stopping' = "flagged"
  /\ shutdown' = TRUE
  /\ UNCHANGED <<token, revoked, loopVars, connection, announced, starting>>

StopCancels ==
  /\ stopping = "flagged"
  /\ stopping' = "cancelled"
  /\ revoked' = revoked \cup ({token} \ {0})
  /\ UNCHANGED <<shutdown, token, loopVars, connection, announced, starting, calls>>

StopReports ==
  /\ stopping = "cancelled"
  /\ stopping' = "no"
  /\ connection' = "Disconnected"
  /\ announced' = "Disconnected"
  /\ UNCHANGED <<shutdown, token, revoked, loopVars, starting, calls>>

----------------------------------------------------------------------------
(* run_connection_loop.  Loop i goes to a place, and writes a status there, *)
(* the event of which it sends before it does anything else.                *)
Goes(i, place) ==
  /\ at' = [at EXCEPT ![i] = place]
  /\ UNCHANGED <<unsent, connection>>

Writes(i, place, s) ==
  /\ at' = [at EXCEPT ![i] = place]
  /\ connection' = s
  /\ unsent' = [unsent EXCEPT ![i] = s]

Sends(i) ==
  /\ unsent[i] # Nothing
  /\ announced' = unsent[i]
  /\ unsent' = [unsent EXCEPT ![i] = Nothing]
  /\ UNCHANGED <<shutdown, token, revoked, at, attempts, connection, callerVars>>

(* Mutant: a loop looks at the flag alone, which the next start resets. *)
ToldToEnd_FlagOnly(i) == shutdown

ToldToEnd(i) == shutdown \/ i \in revoked

Ready(i, place) == at[i] = place /\ unsent[i] = Nothing
OthersUnchanged == UNCHANGED <<shutdown, token, revoked, announced, callerVars>>

Top(i) ==
  /\ Ready(i, "top")
  /\ Goes(i, IF ToldToEnd(i) THEN "leaving" ELSE "reconnecting")
  /\ UNCHANGED attempts
  /\ OthersUnchanged

(* The lock of the statuses was awaited since the flag was looked at. *)
Reconnecting(i) ==
  /\ Ready(i, "reconnecting")
  /\ Writes(i, "connecting", "Reconnecting")
  /\ UNCHANGED attempts
  /\ OthersUnchanged

Connected(i) ==
  /\ Ready(i, "connecting")
  /\ Writes(i, "subscribing", "Connected")
  /\ attempts' = [attempts EXCEPT ![i] = 0]
  /\ OthersUnchanged

(* The subscription was sent, or there is none to send. *)
Subscribed(i) ==
  /\ Ready(i, "subscribing")
  /\ Goes(i, "reading")
  /\ UNCHANGED attempts
  /\ OthersUnchanged

ConnectError(i) ==
  /\ Ready(i, "connecting")
  /\ Writes(i, "check", "Error")
  /\ UNCHANGED attempts
  /\ OthersUnchanged

(* The exchange sends a message, after which the flag is looked at. *)
Message(i) ==
  /\ Ready(i, "reading")
  /\ shutdown
  /\ Goes(i, "check")
  /\ UNCHANGED attempts
  /\ OthersUnchanged

(* The stream closes, fails or ends. *)
StreamEnds(i) ==
  /\ Ready(i, "reading")
  /\ Goes(i, "check")
  /\ UNCHANGED attempts
  /\ OthersUnchanged

(* The other arm of the select. *)
ReadCancelled(i) ==
  /\ Ready(i, "reading")
  /\ i \in revoked
  /\ Goes(i, "check")
  /\ UNCHANGED attempts
  /\ OthersUnchanged

Check(i) ==
  /\ Ready(i, "check")
  /\ \/ /\ ToldToEnd(i)
        /\ Goes(i, "leaving") /\ UNCHANGED attempts
     \/ /\ ~ToldToEnd(i)
        /\ attempts' = [attempts EXCEPT ![i] = @ + 1]
        /\ Goes(i, IF attempts[i] + 1 >= MaxAttempts THEN "leaving" ELSE "backoff")
  /\ OthersUnchanged

Backoff(i) ==
  /\ Ready(i, "backoff")
  /\ \/ Goes(i, "top")
     \/ i \in revoked /\ Goes(i, "leaving")
  /\ UNCHANGED attempts
  /\ OthersUnchanged

(* Mutant: a loop returns where it should break. *)
Leaves_NoReport(i) ==
  /\ Ready(i, "leaving")
  /\ Goes(i, "ended")
  /\ UNCHANGED attempts
  /\ OthersUnchanged

(* After the loop: the status and its event, whatever ended it. *)
Leaves(i) ==
  /\ Ready(i, "leaving")
  /\ Writes(i, "ended", "Disconnected")
  /\ UNCHANGED attempts
  /\ OthersUnchanged

(* What a loop does without waiting for the exchange. *)
RunsOn(i) ==
  Sends(i) \/ Top(i) \/ Reconnecting(i) \/ ReadCancelled(i) \/ Check(i) \/ Backoff(i) \/ Leaves(i)

(* What waits for the exchange. *)
Exchanges(i) ==
  Connected(i) \/ ConnectError(i) \/ Subscribed(i) \/ Message(i) \/ StreamEnds(i)

CollectorNext ==
  \/ Start \/ Stop \/ StopCancels \/ StopReports
  \/ \E i \in Runs : Spawn(i) \/ RunsOn(i) \/ Exchanges(i)

(* Tasks run; the exchange may be silent for ever. *)
CollectorFairness == \A i \in Runs : WF_collectorVars(RunsOn(i))

CollectorSpec == CollectorInit /\ [][CollectorNext]_collectorVars /\ CollectorFairness

----------------------------------------------------------------------------
(* A loop whose token stop cancelled ends, even over a silent socket and    *)
(* even when a start that follows at once has reset the flag it would have  *)
(* looked at.  The exception is a loop that stays for good in an attempt to *)
(* connect or to subscribe, which an exchange that never answers can do to  *)
(* it: neither has a timeout or looks at the token.                         *)
Unanswered(i) == at[i] \in {"connecting", "subscribing"}

CancelledLoopsEnd ==
  \A i \in Runs : ([]<>~Unanswered(i)) => ((i \in revoked) ~> (at[i] = "ended"))

(* When every loop that was started has ended and nobody is starting or     *)
(* stopping, the status is Disconnected, and so is the last event a         *)
(* subscriber received, in whatever order the loops and stop wrote and sent *)
(* theirs.                                                                  *)
EndedIsDisconnected ==
  ((\A i \in Spawned : at[i] = "ended" /\ unsent[i] = Nothing) /\ Spawned # {} /\ stopping = "no")
    => connection = "Disconnected" /\ announced = "Disconnected"

============================================================================
