-------------------------- MODULE TransparentTable --------------------------
(***************************************************************************)
(* What the data service promises a client: the operator publishes the     *)
(* state of the table from time to time, with at least the rows of the     *)
(* state before, or starts again from nothing; a query sees the state      *)
(* published when it begins, and its answer is a refusal, the unproved     *)
(* statement that a row was not found, or exactly what that state says.    *)
(*                                                                         *)
(* The module is the abstraction of TapClient, which implements it as long *)
(* as the operator reloads no table (the call InitializeSqlTable).         *)
(***************************************************************************)
CONSTANTS Key, Rows,
          Queries,           \* the queries a client may ask
          Scope(_)           \* the prefixes a query is about

VARIABLES published,         \* map from prefixes to published rows
          session            \* the client's query, if any

tvars == <<published, session>>

NoSession == [status |-> "none"]

\* The rows in the scope of a query, as published when it began.
Visible(s) == UNION {s.seen[k] : k \in Scope(s.query)}

\* The answers a query may be given.
RightAnswers(s) ==
    CASE s.query.kind = "lookup" ->
            {[status |-> "found", rows |-> {r}] : r \in {s.query.row} \cap Visible(s)}
                \cup {[status |-> "notFound", rows |-> {}]}
      [] s.query.kind = "sum" ->
            {[status |-> IF Visible(s) = {} THEN "noEntries" ELSE "sum",
              rows   |-> Visible(s)]}

Refusals == {[status |-> st, rows |-> {}] : st \in {"rejected", "failed"}}

TInit == published = [k \in Key |-> {}] /\ session = NoSession

Publish ==
    /\ published' \in [Key -> SUBSET Rows]
    /\ \A k \in Key : published[k] \subseteq published'[k]
    /\ UNCHANGED session

Retract ==
    /\ published' = [k \in Key |-> {}]
    /\ UNCHANGED session

AskQuery ==
    /\ session = NoSession
    /\ \E q \in Queries : session' = [status |-> "open", query |-> q, seen |-> published]
    /\ UNCHANGED published

AnswerQuery ==
    /\ session.status = "open"
    /\ \E a \in RightAnswers(session) \cup Refusals :
           session' = [status |-> "answered", query |-> session.query,
                       seen |-> session.seen, answer |-> a]
    /\ UNCHANGED published

ForgetQuery ==
    /\ session.status = "answered"
    /\ session' = NoSession
    /\ UNCHANGED published

TNext == Publish \/ Retract \/ AskQuery \/ AnswerQuery \/ ForgetQuery

TSpec == TInit /\ [][TNext]_tvars

=============================================================================
