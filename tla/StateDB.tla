------------------------------ MODULE StateDB ------------------------------
(***************************************************************************)
(* ChainStateDB (src/state/statedb.go) as operators on a record           *)
(*   sdb = [accounts, trie, latest, saved]                                *)
(*   accounts : the committed account map, Accounts -> State              *)
(*   trie     : the content the current trie root authenticates.  The     *)
(*              trie is content addressed, so a root is modelled by the   *)
(*              account map it stands for; Revert/LoadCache of a root     *)
(*              set the trie to that content.                             *)
(*   latest   : BlockInfo [no, hash, prev] of the last applied block      *)
(*   saved    : the BlockStates written by saveBlockState, by block hash  *)
(* The chain service calls these under one writer, so each is one step    *)
(* of its caller.                                                         *)
(***************************************************************************)
EXTENDS Executor

\* merge a partial map of account states into a total one
Merge(base, changed) ==
    [a \in DOMAIN base |-> IF a \in DOMAIN changed THEN changed[a] ELSE base[a]]

\* ChainStateDB.Apply: the block must follow latest by number and by hash
ApplyGuard(sdb, bs) ==
    /\ sdb.latest.no + 1 = bs.info.no
    /\ sdb.latest.hash = bs.info.prev

\* apply, up to and including the merge into the account map: the undo
\* root is taken from the trie if still empty, the BlockState is saved, and
\* its post-images are merged into the committed map.
ApplyAccounts(sdb, bs) ==
    LET bsu == IF bs.undoRoot = Nil THEN [bs EXCEPT !.undoRoot = sdb.trie] ELSE bs
    IN  [sdb EXCEPT !.saved    = (bs.info.hash :> bsu) @@ @,
                    !.accounts = Merge(@, bs.accounts)]

\* updateTrie: the touched accounts, sorted by id, are written into the trie
\* in one batch and committed.  The sort only fixes the byte layout of the
\* batch; the content the root stands for is the merge.
UpdateTrie(trie, changed) == Merge(trie, changed)

\* apply when updateTrie succeeds: the trie is updated, latest advances and
\* saveStateDB persists it.
ApplyFull(sdb, bs) ==
    LET s1 == ApplyAccounts(sdb, bs)
    IN  [s1 EXCEPT !.trie = UpdateTrie(@, bs.accounts), !.latest = bs.info]

\* Mutation of RevertTrie: the condition inverted, the trie is kept.
RevertTrieInverted(trie, prevRoot) == IF trie = prevRoot THEN prevRoot ELSE trie

\* revertTrie: nothing if the root is already prevRoot, else Revert, and on
\* a cache miss set the root and LoadCache it.  Either way the trie then
\* authenticates the content prevRoot stands for.
RevertTrie(trie, prevRoot) == IF trie = prevRoot THEN trie ELSE prevRoot

\* The loop of ChainStateDB.Rollback, from target back to block n, while
\* target.no >= n: the target's BlockState is loaded (a missing one ends
\* the loop with an error), latest is set to its info, the loop stops when
\* target is block n, and otherwise the block's pre-images are restored,
\* the trie is reverted to its undo root and target steps to the parent.
RECURSIVE RollbackLoop(_, _, _)
RollbackLoop(sdb, target, n) ==
    IF target.no < n \/ target.hash \notin DOMAIN sdb.saved
      THEN sdb
      ELSE LET bs   == sdb.saved[target.hash]
               sdb1 == [sdb EXCEPT !.latest = bs.info]
           IN  IF target.no = n
                 THEN sdb1
                 ELSE RollbackLoop([sdb1 EXCEPT !.accounts = Merge(@, bs.undo),
                                                !.trie = RevertTrie(@, bs.undoRoot)],
                                   [no |-> bs.info.no - 1, hash |-> bs.info.prev], n)

\* Mutation of RollbackGuard: latest must be two blocks above n.
RollbackGuardOffByOne(sdb, n) == sdb.latest.no > n + 1

\* ChainStateDB.Rollback(n): refused unless latest is above n
RollbackGuard(sdb, n) == sdb.latest.no > n

Rollback(sdb, n) ==
    RollbackLoop(sdb, [no |-> sdb.latest.no, hash |-> sdb.latest.hash], n)

\* SetGenesis: latest is the genesis info, a BlockState holding the
\* allocation with nil pre-images is built and applied.
SetGenesis(info, alloc) ==
    LET empty == [a \in DOMAIN alloc |-> NewState]
        gbs   == [NewBlockState(info) EXCEPT
                    !.accounts = alloc,
                    !.undo     = [a \in DOMAIN alloc |-> Nil]]
    IN  ApplyFull([accounts |-> empty, trie |-> empty, latest |-> info,
                   saved |-> <<>>], gbs)

=============================================================================
