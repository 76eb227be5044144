------------------------------ MODULE MCStores ------------------------------
(***************************************************************************)
(* The durable side for model checking: the Outbox with receipts, the      *)
(* Mongo Outbox, the transaction stores, and Python's Execute, which runs  *)
(* on such a store.  They share no state, so the initial state says which  *)
(* of them takes the steps, and the state spaces add up.  MCProgress asks  *)
(* for their liveness.                                                     *)
(***************************************************************************)
EXTENDS ReceiptOutbox

CONSTANT Request    \* the one request of the transaction stores

VARIABLES
    part,       \* the component that takes the steps
    doc, tx, worker, claims, faults,
    root, ex, sess, found, granted, starts,
    active, state, started, live, wit, half, final, hostTx,
    caps, ran, sends, held, calls, ended, task

mongoVars == <<doc, tx, worker, claims, faults>>
txVars == <<root, ex, sess, found, granted, starts>>
executeVars == <<active, state, started, live, wit, half, final, hostTx,
                 caps, ran, sends, held, calls, ended, task>>

Mongo == INSTANCE MongoOutbox WITH
        Docs <- {"d1", "d2"}, Prints <- {"a", "b"}, Txs <- {"t1", "t2"}, Workers <- {"w1", "w2"},
        Limit <- 1, Lease <- 1, MaxFaults <- 1

\* Two executions of a request, and every receipt of two branches, of each store;
\* the four instances run on the same variables.
MongoTx == INSTANCE MongoTxStore WITH
        Requests <- {Request}, NumBranches <- 1, MaxFence <- 2, Sessions <- {"s1", "s2"},
        HalfOutcomes <- {"prepared"}, FinalOutcomes <- {"unknown", "commit"}, Batch <- 1, MaxStarts <- 3
MongoReceipts == INSTANCE MongoTxStore WITH
        Requests <- {Request}, NumBranches <- 2, MaxFence <- 1, Sessions <- {"s1", "s2"},
        HalfOutcomes <- {"prepared", "unknown"},
        FinalOutcomes <- {"rollback"}, Batch <- 1, MaxStarts <- 3
SqlTx == INSTANCE SqlTxStore WITH
        Requests <- {Request}, NumBranches <- 1, MaxFence <- 2, Sessions <- {"s1", "s2"},
        HalfOutcomes <- {"prepared"}, FinalOutcomes <- {"unknown", "commit"}, Batch <- 1, MaxStarts <- 4
SqlReceipts == INSTANCE SqlTxStore WITH
        Requests <- {Request}, NumBranches <- 2, MaxFence <- 1, Sessions <- {"s1", "s2"},
        HalfOutcomes <- {"prepared", "rejected", "unknown"},
        FinalOutcomes <- {"commit", "rollback", "unknown"}, Batch <- 1, MaxStarts <- 3

Execute == INSTANCE PyExecute WITH
        Requests <- {Request}, NumBranches <- 2, MaxFence <- 1, Tasks <- {"p1"}

ASSUME Constants ==
    /\ Mongo!MongoOutboxAssumption
    /\ MongoTx!MongoTxAssumption /\ MongoReceipts!MongoTxAssumption
    /\ SqlTx!SqlTxAssumption /\ SqlReceipts!SqlTxAssumption

StoresInit ==
    /\ part \in {"receipt", "mongo", "mongotx", "mongoreceipts", "sqltx", "sqlreceipts",
                 "execute"}
    /\ Init /\ Mongo!Init /\ Execute!Init
    /\ CASE part = "mongoreceipts" -> MongoReceipts!Init
         [] part = "sqltx" -> SqlTx!Init
         [] part = "sqlreceipts" -> SqlReceipts!Init
         [] OTHER -> MongoTx!Init

TxNext ==
    \/ part = "mongotx" /\ MongoTx!Next
    \/ part = "mongoreceipts" /\ MongoReceipts!Next
    \/ part = "sqltx" /\ SqlTx!Next
    \/ part = "sqlreceipts" /\ SqlReceipts!Next

\* The transaction stores, at the bound on their sessions, and Execute may rest; the
\* Outboxes must always have a step to take.
Rest == part \notin {"receipt", "mongo"}
        /\ UNCHANGED <<vars, mongoVars, txVars, executeVars>>

StoresNext ==
    /\ UNCHANGED part
    /\ \/ part = "receipt" /\ Next /\ UNCHANGED <<mongoVars, txVars, executeVars>>
       \/ part = "mongo" /\ Mongo!Next /\ UNCHANGED <<vars, txVars, executeVars>>
       \/ TxNext /\ UNCHANGED <<vars, mongoVars, executeVars>>
       \/ part = "execute" /\ Execute!Next /\ UNCHANGED <<vars, mongoVars, txVars>>
       \/ Rest

StoresSpec == StoresInit /\ [][StoresNext]_<<part, vars, mongoVars, txVars, executeVars>>

-----------------------------------------------------------------------------
(* Properties, besides those of ReceiptOutbox *)

\* What one process holds no other has: a document of the Mongo Outbox has one
\* claimant, who holds no more than asked for, and its version accounts for every
\* claim and settlement; an execution's capability is handed out once, and fences stay
\* within their bound; exclusive row locks have one holder, and no two
\* sessions wait for each other's, the host's root transaction included.
OneHolder == /\ part = "mongo" => Mongo!TypeOK /\ Mongo!OneHolder /\ Mongo!VersionAccounts
             /\ part = "mongotx" => MongoTx!TypeOK /\ MongoTx!OneCapability
             /\ part = "sqltx" => SqlTx!TypeOK /\ SqlTx!OneCapability /\ SqlTx!NoLockCycle
             /\ part = "sqlreceipts" => SqlReceipts!TypeOK /\ SqlReceipts!NoLockCycle

\* What the host was told is what the database holds: the content Append answered nil
\* for, once its transaction committed, and the business outcome Execute returns.
ToldIsStored == /\ part = "mongo" => Mongo!CommittedIsStored
                /\ part = "execute" => Execute!ResultTruth

\* Snapshots and write conflicts in MongoDB, and MySQL's row locks statement by
\* statement, give the operations of TxStore: the documents and rows change only as
\* one of these changes them.
RefinesTxStore ==
    /\ part = "mongotx" => MongoTx!Store!StoreInit
    /\ part = "mongoreceipts" => MongoReceipts!Store!StoreInit
    /\ part = "sqltx" => SqlTx!Store!StoreInit
    /\ part = "sqlreceipts" => SqlReceipts!Store!StoreInit
    /\ [][/\ part = "mongotx" => UNCHANGED MongoTx!Store!storeVars \/ MongoTx!StoreStep
          /\ part = "mongoreceipts" => UNCHANGED MongoReceipts!Store!storeVars \/ MongoReceipts!StoreStep
          /\ part = "sqltx" => UNCHANGED SqlTx!Store!storeVars \/ SqlTx!StoreStep
          /\ part = "sqlreceipts" => UNCHANGED SqlReceipts!Store!storeVars \/ SqlReceipts!StoreStep]_txVars

\* Python's Execute, with its cancellations and threads, implements the operation of
\* TxProtocol, and with it everything shown there.
RefinesTxProtocol ==
    /\ part = "execute" => Execute!P!Init
    /\ [][part = "execute" => UNCHANGED Execute!P!vars \/ Execute!P!Next]_executeVars
=============================================================================
