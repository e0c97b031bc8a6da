---------------------------- MODULE ClientStore ----------------------------
(***************************************************************************)
(* What the client API promises to its callers: a durable set of client    *)
(* records that every call changes at once or not at all, and the pairs of *)
(* addresses that may talk.  Nothing is said of interfaces, ports, files,  *)
(* processes or failures.  Manager implements this specification.          *)
(* Callers are those of the manager's methods: over HTTP "committed" and   *)
(* an "error" that is no refusal are the same internal server error.       *)
(***************************************************************************)
CONSTANTS
  Records   \* client records: at least id, key, addr and group

VARIABLES
  clients,  \* the records
  talk,     \* the pairs of addresses that may exchange packets
  reply     \* the last call, and "ok", "committed" or "error"

storeVars == <<clients, talk, reply>>

SameGroup(cs) ==
  {<<x[1].addr, x[2].addr>> : x \in {y \in cs \X cs : y[1].group = y[2].group}}

StoreInit ==
  /\ clients \subseteq Records
  /\ talk = {}
  /\ reply = [op |-> "none", res |-> "ok"]

\* An operation that decides who may talk: it is answered "ok" when exactly the
\* clients of one group can, "committed" when nobody can for now.
Isolated(op) ==
  \/ reply' = [op |-> op, res |-> "ok"] /\ talk' = SameGroup(clients')
  \/ reply' = [op |-> op, res |-> "committed"] /\ talk' = {}

\* The new client takes no ID, key or address another one has.
StoreCreate ==
  /\ Isolated("create")
  /\ \E c \in clients' \cap Records :
       /\ \A d \in clients : c.id # d.id /\ c.key # d.key /\ c.addr # d.addr
       /\ clients' = clients \cup {c}

StoreDelete ==
  /\ Isolated("delete")
  /\ \E c \in clients : clients' = clients \ {c}

StoreGroup ==
  /\ Isolated("group")
  /\ clients' \subseteq Records
  /\ \E some \in (SUBSET clients) \ {{}}, g \in {c.group : c \in clients'} :
       clients' = (clients \ some) \cup {[c EXCEPT !.group = g] : c \in some}

\* An update changes the settings of one client, and nobody's reachability.
StoreUpdate(op) ==
  /\ reply' = [op |-> op, res |-> "ok"]
  /\ talk' = talk
  /\ \E c \in clients, d \in clients' \cap Records :
       /\ <<d.id, d.key, d.addr, d.group>> = <<c.id, c.key, c.addr, c.group>>
       /\ clients' = (clients \ {c}) \cup {d}

\* A call that is answered with an error has no effect, but may close the LAN.
StoreError ==
  /\ \E op \in {"create", "update", "regenerate", "group", "delete"} :
       reply' = [op |-> op, res |-> "error"]
  /\ clients' = clients
  /\ talk' \in {talk, {}}

\* Whatever happens between calls, stops, crashes and restarts included, keeps
\* every record, and lets only the clients of one group talk.
StoreIdle ==
  /\ reply' = [op |-> "none", res |-> "ok"]
  /\ clients' = clients
  /\ talk' \in {talk, {}, SameGroup(clients)}

StoreNext ==
  \/ StoreCreate \/ StoreDelete \/ StoreGroup \/ StoreError \/ StoreIdle
  \/ StoreUpdate("update") \/ StoreUpdate("regenerate")

StoreSpec == StoreInit /\ [][StoreNext]_storeVars
=============================================================================
