------------------------------ MODULE MCRequest -----------------------------
(***************************************************************************)
(* What happens to a request between the URL and the database: parsing     *)
(* (MCQuery), planning (MCPlan), the decisions about edges, overloads and  *)
(* rows (Decide) and SQL generation (MCSql). Each takes a task, answers it *)
(* and stops; they are told apart by the task's kind. The properties join  *)
(* the ones that the modules state of their answers.                       *)
(***************************************************************************)
EXTENDS MCDecide

vars == <<task, out>>

Q == INSTANCE MCQuery
P == INSTANCE MCPlan
S == INSTANCE MCSql

Init == Q!Init \/ P!Init \/ DecideInit \/ S!Init
Next == Q!Next \/ P!Next \/ DecideNext \/ S!Next
Spec == Init /\ [][Next]_vars

-----------------------------------------------------------------------------
\* What a client means and the grammar can write (value lists, conditions,
\* select lists, order terms) is read back as it was meant, and so is a policy of
\* the configuration: quotes, escapes, nesting, aliases and casts move nothing to
\* another place (ir/parse.go, authz/parse.go).
TreesReadBack == Q!ListsRead /\ Q!FiltersRead /\ Q!SelectsRead /\ Q!OrderRead /\ P!PoliciesReadBack

\* Every parameter of a read applies at the embed its prefix names and nowhere
\* else, a write that is accepted neither drops nor makes up a value of its rows,
\* and each argument of a call is read once and bound where the body names it
\* (applyParams, ParseWrite, PartitionGetArgs, bindNamed).
ParametersReachTheirPlace == Q!ParamsRouted /\ Q!WritesComplete /\ Q!ArgsPartitioned /\ S!CallsBind

\* A read is planned exactly when every name in it means something where it
\* stands, an accepted PUT writes the row its URL names, a call's keys are its
\* overload's arguments or filters, and a view has exactly the keys of the table
\* whose columns reach it (Read, validatePut, Call, projectViews).
PlansMeaningful == P!ReadsMeaningful /\ P!PutAddressesItsRow /\ P!CallsPlanned /\ P!ViewsInherit

\* On every engine the generated read returns the rows that its filters and inner
\* embeds mean, nested as asked and in the order asked for, and the count beside
\* it counts the same rows (CompileRead, CompileCount).
ReadsAsMeant ==
    S!ReadSelectsItsRows /\ S!CountMatchesRead /\ S!EmbedsNest /\ S!OrderAsAsked

\* Every statement binds its arguments in the order of its placeholders; a write
\* changes the rows its filter means to the values of its payload, and an upsert
\* sent again changes nothing more (CompileInsert, CompileUpdate, CompileDelete).
WritesAsMeant == S!ArgumentsLineUp /\ S!WritesAsMeant /\ S!UpsertRetried
=============================================================================
