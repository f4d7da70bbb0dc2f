---------------------------- MODULE RslExecutor -----------------------------
(***************************************************************************)
(* The executor of every replica: the application and the operation that   *)
(* was decided and is to be executed next.  The application is the         *)
(* sequence of batches it executed.                                        *)
(***************************************************************************)
EXTENDS RslTypes

VARIABLE executor

CExecutor == [app : Seq(Batches), ops_complete : Opns,
              max_bal_reflected : Ballots,
              next_op_to_execute : COutstandingOpKnown \cup {None}]

CExecutorInit ==
    executor = [r \in Replicas |->
                  [app |-> <<>>, ops_complete |-> 0,
                   max_bal_reflected |-> CBallot(0, 0),
                   next_op_to_execute |-> None]]

CExecutorGetDecision(r, b, batch) ==
    executor' = [executor EXCEPT ![r].next_op_to_execute = [v |-> batch, bal |-> b]]

CExecutorExecute(r) ==
    LET op == executor[r].next_op_to_execute
    IN  executor' = [executor EXCEPT
                       ![r].app = Append(@, op.v),
                       ![r].ops_complete = @ + 1,
                       ![r].max_bal_reflected = IF CBalLeq(@, op.bal) THEN op.bal ELSE @,
                       ![r].next_op_to_execute = None]

CExecutorProcessAppStateSupply(r, p) ==
    executor' = [executor EXCEPT ![r] =
                   [app |-> p.app_state, ops_complete |-> p.opn,
                    max_bal_reflected |-> p.bal, next_op_to_execute |-> None]]

\* Mutant: a replica that executed exactly as much as is asked for is silent.
SupplyOnlyIfAhead(r, p) ==
    /\ CBalLeq(executor[r].max_bal_reflected, p.bal)
    /\ executor[r].ops_complete > p.opn

\* A replica that executed enough, in no higher ballot, supplies its state.
CExecutorProcessAppStateRequest(r, p) ==
    /\ CBalLeq(executor[r].max_bal_reflected, p.bal)
    /\ executor[r].ops_complete >= p.opn

AppStateSupply(r, p) ==
    MessageAppStateSupply(r, p.src, executor[r].max_bal_reflected,
                          executor[r].ops_complete, executor[r].app)

\* The new leader starts above what this replica executed: ask for the state.
CExecutorProcessStartingPhase2(r, p) ==
    p.log_truncation_point > executor[r].ops_complete
=============================================================================
