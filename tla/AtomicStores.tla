---------------------------- MODULE AtomicStores ----------------------------
(***************************************************************************)
(* What the two stores promise: every operation takes effect at once and   *)
(* for good or, if it is answered with an error, not at all; a call that   *)
(* is cut off by a crash has done one or the other.  Only a loss of power  *)
(* may bring an earlier table back, and only one that the directory was    *)
(* not synced over.                                                        *)
(***************************************************************************)
EXTENDS StoreData

CONSTANTS Callers

VARIABLES
  table,   \* table[s]: the records of store s
  back,    \* back[s]: earlier tables a loss of power may bring back
  req,     \* req[c]: the request c makes
  call,    \* call[c]: "idle", "called" or, once it has taken effect, "taken"
  answer   \* answer[c]: how c's last call was answered

absVars == <<table, back, req, call, answer>>

AbsInit ==
  /\ table = [s \in StoreNames |-> Empty]
  /\ back = [s \in StoreNames |-> {}]
  /\ req = [c \in Callers |-> None]
  /\ call = [c \in Callers |-> "idle"]
  /\ answer = [c \in Callers |-> "none"]

AbsCall(c) ==
  /\ call[c] = "idle"
  /\ \E q \in Request : req' = [req EXCEPT ![c] = q]
  /\ call' = [call EXCEPT ![c] = "called"]
  /\ answer' = [answer EXCEPT ![c] = "none"]
  /\ UNCHANGED <<table, back>>

\* The operation takes effect.
AbsTake(c) ==
  LET s == storeOf(req[c]) IN
  /\ call[c] = "called"
  /\ \E t \in Results(table[s], req[c]) : table' = [table EXCEPT ![s] = t]
  /\ back' = [back EXCEPT ![s] = back[s] \cup {table[s]}]
  /\ call' = [call EXCEPT ![c] = "taken"]
  /\ UNCHANGED <<req, answer>>

\* The answer "ok", with the effect out of reach of a loss of power or not.
AbsOk(c) ==
  LET s == storeOf(req[c]) IN
  /\ call[c] = "taken"
  /\ back' \in {back, [back EXCEPT ![s] = {}]}
  /\ call' = [call EXCEPT ![c] = "idle"]
  /\ req' = [req EXCEPT ![c] = None]
  /\ answer' = [answer EXCEPT ![c] = "ok"]
  /\ UNCHANGED table

AbsError(c) ==
  /\ call[c] = "called"
  /\ call' = [call EXCEPT ![c] = "idle"]
  /\ req' = [req EXCEPT ![c] = None]
  /\ answer' = [answer EXCEPT ![c] = "error"]
  /\ UNCHANGED <<table, back>>

\* The process ends, and perhaps the machine with it: calls are cut off.
AbsCrash ==
  /\ call' = [c \in Callers |-> "idle"]
  /\ req' = [c \in Callers |-> None]
  /\ answer' = [c \in Callers |-> IF call[c] = "idle" THEN answer[c] ELSE "none"]
  /\ \/ UNCHANGED <<table, back>>
     \/ /\ \A s \in StoreNames : table'[s] \in {table[s]} \cup back[s]
        /\ table' = [s \in StoreNames |-> table'[s]]
        /\ back' = [s \in StoreNames |-> {}]

AbsNext ==
  \/ \E c \in Callers : AbsCall(c) \/ AbsTake(c) \/ AbsOk(c) \/ AbsError(c)
  \/ AbsCrash

AbsSpec == AbsInit /\ [][AbsNext]_absVars
=============================================================================
