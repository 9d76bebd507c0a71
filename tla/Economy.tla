------------------------------ MODULE Economy -------------------------------
(***************************************************************************)
(* EconomySystem::Execute with its idempotency store and its ledger, as    *)
(* wired in economy_system.cpp.  The simulation thread runs one command at *)
(* a time, so one Execute is one step, whatever it calls; what interleaves *)
(* is the client that sends a key again, the persistence thread that       *)
(* flushes the ledger, the clock that expires keys, and the stores, any    *)
(* call of which may fail.                                                 *)
(***************************************************************************)
EXTENDS Integers, Sequences, FiniteSets, SequencesExt

CONSTANTS
    Defs,          \* item definitions
    MaxStack,      \* MaxStack[d]: units of d in one stack
    Slots,         \* kMaxInventorySlots
    NoDef,         \* def_id of an empty slot
    Players, Currencies,
    NoPlayer,      \* no peer
    NoCurrency,    \* a currency that is not in the table
    MaxBalance,    \* kMaxBalance
    Price,         \* Price[d]: the row of the price table, or NoPrice
    NoPrice,
    Keys,          \* idempotency keys
    Cmd,           \* Cmd[k]: the command that clients send under key k
    Capacity,      \* slots of the ledger's ring
    Ttl,           \* life of an InFlight row, in ticks
    SingleFault,   \* the stores never fail together: see CommitMayFail
    MaxFaults,     \* bound: calls of the stores that fail
    MaxClock       \* bound: ticks

Ops == {"AddCurrency", "RemoveCurrency", "AddItem", "RemoveItem",
        "Transfer", "Purchase", "Reward", "Refund"}

Deltas == [def : Defs, n : Int \ {0}]

Commands == [op : Ops, player : Players, peer : Players \cup {NoPlayer},
             currency : Currencies \cup {NoCurrency}, amount : Nat,
             items : Seq(Deltas)]

Prices == [currency : Currencies, unit : Nat, min : Nat, max : Nat]

(* ValidateCommand.  A command it refuses never reaches the stores.        *)
ValidCommand(c) ==
    /\ c.op \in {"AddCurrency", "RemoveCurrency"} =>
          c.currency \in Currencies /\ c.amount > 0
    /\ c.op = "Transfer" =>
          /\ c.peer \in Players \ {c.player}
          /\ c.amount > 0 => c.currency \in Currencies
          /\ c.amount > 0 \/ c.items # <<>>
          /\ \A i \in 1..Len(c.items) : c.items[i].n > 0
    /\ c.op \in {"AddItem", "RemoveItem", "Purchase", "Reward", "Refund"} =>
          /\ c.items # <<>>
          /\ c.op = "Purchase" => Len(c.items) = 1
          /\ c.op \in {"AddItem", "Purchase", "Reward"} =>
                \A i \in 1..Len(c.items) : c.items[i].n > 0
          /\ c.op = "RemoveItem" => \A i \in 1..Len(c.items) : c.items[i].n < 0
    /\ c.op \in {"Reward", "Refund"} /\ c.amount > 0 => c.currency \in Currencies

ASSUME InventoryAssumption ==
    /\ NoDef \notin Defs
    /\ Slots \in Nat \ {0}
    /\ MaxStack \in [Defs -> Nat \ {0}]

ASSUME EconomyAssumption ==
    /\ NoPlayer \notin Players /\ NoCurrency \notin Currencies
    /\ IsFiniteSet(Players) /\ IsFiniteSet(Currencies)
    /\ MaxBalance \in Nat
    /\ Capacity \in Nat \ {0} /\ Ttl \in Nat \ {0}
    /\ MaxFaults \in Nat /\ MaxClock \in Nat
    /\ SingleFault \in BOOLEAN
    /\ Price \in [Defs -> Prices \cup {NoPrice}]
    /\ DOMAIN Cmd = Keys
    /\ \A k \in Keys : Cmd[k] \in Commands /\ ValidCommand(Cmd[k])

VARIABLES
    wallet,        \* wallets_: the balance of each player in each currency
    bag,           \* the bags of the inventory system
    minted,        \* stats_.total_minted
    burned,        \* stats_.total_burned
    idem,          \* the idempotency table: a row for each key, or NoRow
    ring,          \* the ledger's buffer, oldest entry first
    rows,          \* the ledger's store: a set of entries (Ledger.tla orders them)
    clock,         \* IdempotencyStore::NowMs
    faults,        \* calls of the stores that have failed
    reply,         \* what the last Execute returned
    pending,       \* stats_.ledger_pending_count
    effects,       \* history: how often the command of each key took effect
    first,         \* history: the first result of each key that took effect
    flagged        \* history: the keys whose result was flagged ledger_pending

world   == <<wallet, bag, minted, burned>>
ledger  == <<ring, rows, pending, flagged>>
history == <<effects, first>>
vars    == <<world, idem, ledger, clock, faults, reply, history>>

-----------------------------------------------------------------------------
(* A player's bag (inventory.h, inventory.cpp): stacks in numbered slots,  *)
(* a LIFO of freed slots and a high-water mark.  Adding and removing are   *)
(* written one unit at a time; the loops of the code, which move as many   *)
(* units per stack as fit, end in the same bag.                            *)

EmptySlot == [def |-> NoDef, n |-> 0]

FreshBag == [slot |-> [i \in 1..Slots |-> EmptySlot], free |-> <<>>, next |-> 1]

Stacks(b, d) == {i \in 1..Slots : b.slot[i].def = d}

Held(b, d) == MapThenSumSet(LAMBDA i : b.slot[i].n, Stacks(b, d))

(* The first stack of d with room; else the slot freed last; else the next *)
(* slot never used; else the bag is left as it is.                         *)
AddUnit(b, d) ==
    LET open == {i \in Stacks(b, d) : b.slot[i].n < MaxStack[d]}
        new  == [def |-> d, n |-> 1]
    IN  CASE open # {}           -> [b EXCEPT !.slot[Min(open)].n = @ + 1]
          [] open = {} /\ b.free # <<>> ->
                 [b EXCEPT !.slot[Last(b.free)] = new, !.free = Front(@)]
          [] open = {} /\ b.free = <<>> /\ b.next <= Slots ->
                 [b EXCEPT !.slot[b.next] = new, !.next = @ + 1]
          [] OTHER               -> b

AddUnits(b, d, n) ==
    LET f[i \in 0..n] == IF i = 0 THEN b ELSE AddUnit(f[i - 1], d)
    IN  f[n]

(* Mutant: Add reports success when nothing fits. *)
CanAlwaysAdd(b, d, n) == d \in Defs

(* Inventory::Add refuses only when nothing fits; what fits of a larger    *)
(* count is added and the call succeeds.                                   *)
CanAdd(b, d, n) == AddUnit(b, d) # b

(* EconomySystem::RemoveByDef: the lowest slots first, all or nothing.     *)
RemoveUnit(b, d) ==
    LET i == Min(Stacks(b, d))
    IN  IF b.slot[i].n > 1
          THEN [b EXCEPT !.slot[i].n = @ - 1]
          ELSE [b EXCEPT !.slot[i] = EmptySlot, !.free = Append(@, i)]

RemoveUnits(b, d, n) ==
    LET f[i \in 0..n] == IF i = 0 THEN b ELSE RemoveUnit(f[i - 1], d)
    IN  f[n]

CanRemove(b, d, n) == Held(b, d) >= n

(* A delta of n > 0 units is an Add, one of n < 0 a RemoveByDef.           *)
CanApply(b, d, n) == IF n > 0 THEN CanAdd(b, d, n) ELSE CanRemove(b, d, -n)

ApplyDelta(b, d, n) == IF n > 0 THEN AddUnits(b, d, n) ELSE RemoveUnits(b, d, -n)

-----------------------------------------------------------------------------
(* The operations.  Each is a function of the state of the world w, a      *)
(* record of the four variables, to an outcome: was the command applied,   *)
(* the world it left and the balance it reports.  A rejected command ought *)
(* to leave w as it found it.                                              *)

World == [wallet |-> wallet, bag |-> bag, minted |-> minted, burned |-> burned]

Outcome(ok, w, bal) == [applied |-> ok, world |-> w, balance |-> bal]

Balance(w, p, c) == IF c \in Currencies THEN w.wallet[p][c] ELSE 0

(* Wallet::Add refuses a zero delta, an overdraft and an overflow.         *)
CanPay(w, p, c, delta) ==
    /\ c \in Currencies /\ delta # 0
    /\ w.wallet[p][c] + delta \in 0..MaxBalance

Pay(w, p, c, delta) == [w EXCEPT !.wallet[p][c] = @ + delta]

(* The loop over item_deltas: it stops at the first delta that fails.      *)
RunDeltas(b, ds) ==
    LET f[i \in 0..Len(ds)] ==
            IF i = 0 THEN [bag |-> b, done |-> 0]
            ELSE LET r == f[i - 1] IN
                 IF r.done = i - 1 /\ CanApply(r.bag, ds[i].def, ds[i].n)
                   THEN [bag |-> ApplyDelta(r.bag, ds[i].def, ds[i].n), done |-> i]
                   ELSE r
    IN  f[Len(ds)]

(* Mutant: the last delta that was done is not undone. *)
UndoAllButLast(b, ds, done) ==
    LET f[i \in 0..done] ==
            IF i = 0 THEN b
            ELSE IF CanApply(f[i - 1], ds[i].def, -ds[i].n)
                   THEN ApplyDelta(f[i - 1], ds[i].def, -ds[i].n)
                   ELSE f[i - 1]
    IN  IF done = 0 THEN b ELSE f[done - 1]

(* The rollback undoes the deltas that were done, the oldest first, each   *)
(* by its nominal count, and ignores an undo that fails.                   *)
UndoDeltas(b, ds, done) ==
    LET f[i \in 0..done] ==
            IF i = 0 THEN b
            ELSE IF CanApply(f[i - 1], ds[i].def, -ds[i].n)
                   THEN ApplyDelta(f[i - 1], ds[i].def, -ds[i].n)
                   ELSE f[i - 1]
    IN  f[done]

DoCurrency(w, c) ==
    LET delta == IF c.op = "AddCurrency" THEN c.amount ELSE -c.amount
        paid  == Pay(w, c.player, c.currency, delta)
    IN  IF ~CanPay(w, c.player, c.currency, delta)
          THEN Outcome(FALSE, w, Balance(w, c.player, c.currency))
          ELSE Outcome(TRUE,
                       IF delta > 0 THEN [paid EXCEPT !.minted = @ + c.amount]
                                    ELSE [paid EXCEPT !.burned = @ + c.amount],
                       Balance(paid, c.player, c.currency))

DoItems(w, c) ==
    LET run == RunDeltas(w.bag[c.player], c.items)
        ok  == run.done = Len(c.items)
    IN  Outcome(ok,
                [w EXCEPT !.bag[c.player] =
                    IF ok THEN run.bag ELSE UndoDeltas(run.bag, c.items, run.done)],
                Balance(w, c.player, c.currency))

(* The loop over the items of a transfer.  A unit that the peer has no     *)
(* room for goes back to the player; the loop stops there.                 *)
GiveDeltas(b, c) ==
    LET give(bags, d) == [bags EXCEPT ![c.player] = RemoveUnits(@, d.def, d.n),
                                      ![c.peer]   = AddUnits(@, d.def, d.n)]
        f[i \in 0..Len(c.items)] ==
            IF i = 0 THEN [bag |-> b, done |-> 0]
            ELSE LET r == f[i - 1]
                     d == c.items[i]
                 IN  IF /\ r.done = i - 1
                        /\ CanRemove(r.bag[c.player], d.def, d.n)
                       THEN IF CanAdd(r.bag[c.peer], d.def, d.n)
                              THEN [bag |-> give(r.bag, d), done |-> i]
                              ELSE [r EXCEPT !.bag[c.player] =
                                       AddUnits(RemoveUnits(@, d.def, d.n), d.def, d.n)]
                       ELSE r
    IN  f[Len(c.items)]

(* Money moves first.  When an item cannot move, nothing that moved before *)
(* it returns: neither the money nor the items of earlier deltas.          *)
DoTransfer(w, c) ==
    LET canMove == \/ c.amount = 0
                   \/ /\ CanPay(w, c.player, c.currency, -c.amount)
                      /\ CanPay(w, c.peer, c.currency, c.amount)
        moved   == IF c.amount = 0 THEN w
                   ELSE Pay(Pay(w, c.player, c.currency, -c.amount),
                            c.peer, c.currency, c.amount)
        run     == GiveDeltas(w.bag, c)
    IN  IF ~canMove
          THEN Outcome(FALSE, w, Balance(w, c.player, c.currency))
          ELSE Outcome(run.done = Len(c.items),
                       [moved EXCEPT !.bag = run.bag],
                       Balance(moved, c.player, c.currency))

(* The price, its currency included, comes from the table.                 *)
DoPurchase(w, c) ==
    LET d     == c.items[1]
        price == Price[d.def]
        total == price.unit * d.n
        paid  == Pay(w, c.player, price.currency, -total)
    IN  CASE price = NoPrice ->
                 Outcome(FALSE, w, Balance(w, c.player, c.currency))
          [] price # NoPrice /\
             (~(/\ d.n >= price.min /\ (price.max = 0 \/ d.n <= price.max)
                /\ total <= MaxBalance
                /\ CanPay(w, c.player, price.currency, -total)
                /\ CanAdd(w.bag[c.player], d.def, d.n))) ->
                 Outcome(FALSE, w, Balance(w, c.player, price.currency))
          [] OTHER ->
                 Outcome(TRUE,
                         [paid EXCEPT !.burned = @ + total,
                                      !.bag[c.player] = AddUnits(@, d.def, d.n)],
                         Balance(paid, c.player, price.currency))

(* Mutant: the money is taken back, but not out of total_minted. *)
DoGrantStillMinted(w, c) ==
    LET hasMoney == c.amount > 0
        paid  == IF hasMoney
                   THEN [Pay(w, c.player, c.currency, c.amount)
                            EXCEPT !.minted = @ + c.amount]
                   ELSE w
        items == DoItems(paid, c)
    IN  CASE hasMoney /\ ~CanPay(w, c.player, c.currency, c.amount) ->
                 Outcome(FALSE, w, Balance(w, c.player, c.currency))
          [] ~(hasMoney /\ ~CanPay(w, c.player, c.currency, c.amount))
             /\ ~items.applied ->
                 Outcome(FALSE,
                         [paid EXCEPT !.wallet = w.wallet, !.bag = items.world.bag],
                         Balance(w, c.player, c.currency))
          [] OTHER -> items

(* Reward and Refund: money, then items; the money is taken back when the  *)
(* items fail.                                                             *)
DoGrant(w, c) ==
    LET hasMoney == c.amount > 0
        paid  == IF hasMoney
                   THEN [Pay(w, c.player, c.currency, c.amount)
                            EXCEPT !.minted = @ + c.amount]
                   ELSE w
        items == DoItems(paid, c)
    IN  CASE hasMoney /\ ~CanPay(w, c.player, c.currency, c.amount) ->
                 Outcome(FALSE, w, Balance(w, c.player, c.currency))
          [] ~(hasMoney /\ ~CanPay(w, c.player, c.currency, c.amount))
             /\ ~items.applied ->
                 Outcome(FALSE,
                         [w EXCEPT !.bag = items.world.bag],
                         Balance(w, c.player, c.currency))
          [] OTHER -> items

Do(w, c) ==
    CASE c.op \in {"AddCurrency", "RemoveCurrency"} -> DoCurrency(w, c)
      [] c.op \in {"AddItem", "RemoveItem"}         -> DoItems(w, c)
      [] c.op = "Transfer"                          -> DoTransfer(w, c)
      [] c.op = "Purchase"                          -> DoPurchase(w, c)
      [] c.op \in {"Reward", "Refund"}              -> DoGrant(w, c)

-----------------------------------------------------------------------------
(* The ledger, one call per step: a buffer over an append-only store with  *)
(* unique keys.  Ledger.tla looks inside its calls.                        *)

KeysOf(es) == {e.key : e \in es}

StoredKeys == KeysOf(rows)

BufferedKeys == {ring[i].key : i \in 1..Len(ring)}

(* The store after a flush that wrote the first n buffered entries: those  *)
(* that an earlier, failed flush had written are duplicates.               *)
Unstored(n) ==
    {e \in {ring[i] : i \in 1..n} : e.key \notin StoredKeys}

RowsAfter(n) == rows \cup Unstored(n)

(* Mutant: the entry has the balance from before the command. *)
EntryWithOldBalance(k, out) ==
    [key |-> k, player |-> Cmd[k].player, peer |-> Cmd[k].peer,
     currency |-> Cmd[k].currency,
     balance |-> Balance(World, Cmd[k].player, Cmd[k].currency),
     delta |-> out.balance - Balance(World, Cmd[k].player, Cmd[k].currency)]

(* The entry for command k: delta is the change of the balance in the      *)
(* command's currency, from before the command to what its result reports. *)
Entry(k, out) ==
    [key |-> k, player |-> Cmd[k].player, peer |-> Cmd[k].peer,
     currency |-> Cmd[k].currency, balance |-> out.balance,
     delta |-> out.balance - Balance(World, Cmd[k].player, Cmd[k].currency)]

(* Ledger::Append under PostLedger.  An entry that is refused, because its *)
(* key is buffered already or because a full buffer cannot be drained, is  *)
(* only flagged as pending in the result: nobody keeps it.                 *)
Posted(e, drain) ==
    IF Len(ring) = Capacity THEN drain = 0 ELSE e.key \notin BufferedKeys

AppendToLedger(e, drain) ==
    CASE Len(ring) < Capacity ->
             /\ ring' = IF Posted(e, drain) THEN Append(ring, e) ELSE ring
             /\ UNCHANGED rows
      [] Len(ring) = Capacity /\ drain = 0 ->
             ring' = <<e>> /\ rows' = RowsAfter(Len(ring))
      [] Len(ring) = Capacity /\ drain = 1 ->
             \E n \in 0..Len(ring) - 1 : rows' = RowsAfter(n) /\ UNCHANGED ring

(* Mutant: an entry that the ledger refuses is dropped without a word. *)
PostLedgerSilently(e, drain) ==
    /\ drain = 1 => Len(ring) = Capacity
    /\ AppendToLedger(e, drain)
    /\ UNCHANGED <<pending, flagged>>

PostLedger(e, drain) ==
    /\ drain = 1 => Len(ring) = Capacity
    /\ AppendToLedger(e, drain)
    /\ pending' = IF Posted(e, drain) THEN pending ELSE pending + 1
    /\ flagged' = IF Posted(e, drain) THEN flagged ELSE flagged \cup {e.key}

-----------------------------------------------------------------------------
(* The idempotency table (idempotency_store.cpp).                          *)

NoRow == [st |-> "none", deadline |-> 0, balance |-> 0]

InFlight(k) == idem[k].st = "InFlight"

(* TryBegin reports Failed for a row that outlived its deadline; the row   *)
(* stays, because its command may have taken effect.                       *)
Unresolved(k) ==
    idem[k].st = "Failed" \/ (InFlight(k) /\ clock >= idem[k].deadline)

(* Mutant: an expired row is erased. *)
ErasedRow(k) == IF InFlight(k) THEN NoRow ELSE idem[k]

FailedRow(k) == [idem[k] EXCEPT !.st = "Failed"]

Reply(k, kind, bal) == [key |-> k, kind |-> kind, balance |-> bal]

Faults(n) == faults + n <= MaxFaults /\ faults' = faults + n

Init ==
    /\ wallet = [p \in Players |-> [c \in Currencies |-> 0]]
    /\ bag = [p \in Players |-> FreshBag]
    /\ minted = 0 /\ burned = 0
    /\ idem = [k \in Keys |-> NoRow]
    /\ ring = <<>> /\ rows = {}
    /\ pending = 0 /\ flagged = {}
    /\ clock = 0 /\ faults = 0
    /\ reply = [key |-> "none", kind |-> "none", balance |-> 0]
    /\ effects = [k \in Keys |-> 0]
    /\ first = [k \in Keys |-> 0]

(* A completed key answers with its first result. *)
Replay(k) ==
    /\ idem[k].st = "Completed"
    /\ reply' = Reply(k, "replayed", idem[k].balance)
    /\ UNCHANGED <<world, idem, ledger, clock, faults, history>>

(* A key in flight is BUSY; asking again does not prolong its life. *)
Blocked(k) ==
    /\ InFlight(k) /\ clock < idem[k].deadline
    /\ reply' = Reply(k, "busy", Balance(World, Cmd[k].player, Cmd[k].currency))
    /\ UNCHANGED <<world, idem, ledger, clock, faults, history>>

(* The table cannot be read: by TryBegin, or for the result of a completed *)
(* key.  Nothing runs.                                                     *)
Unreadable(k) ==
    /\ Faults(1)
    /\ \/ reply' = Reply(k, "failed", 0)
       \/ /\ idem[k].st = "Completed"
          /\ reply' = Reply(k, "busy", Balance(World, Cmd[k].player, Cmd[k].currency))
    /\ UNCHANGED <<world, idem, ledger, clock, history>>

(* TryRecoverFromLedger: the ledger has the key, so its entry is the first *)
(* result.  The row is completed, unless that write fails.                 *)
Recover(k) ==
    \E commit \in {0, 1}, e \in rows :
        /\ Unresolved(k)
        /\ e.key = k
        /\ Faults(commit)
        /\ idem' = [idem EXCEPT ![k] =
              IF commit = 1 THEN FailedRow(k)
              ELSE [st |-> "Completed", deadline |-> 0, balance |-> e.balance]]
        /\ reply' = Reply(k, "replayed", e.balance)
        /\ UNCHANGED <<world, ledger, clock, history>>

(* Mutant: an expired key runs again without a look at the ledger. *)
MayRunUnasked(k, query) ==
    query = 0 /\ (idem[k] = NoRow \/ Unresolved(k))

(* The key is free to run: it has no row, or its row is unresolved and the *)
(* ledger's store does not show it, or cannot be asked (query = 1).        *)
MayRun(k, query) ==
    \/ idem[k] = NoRow /\ query = 0
    \/ Unresolved(k) /\ (IF query = 1 THEN ~SingleFault ELSE k \notin StoredKeys)

(* TryBegin or RebeginIdempotency does not get a fresh row, and nothing    *)
(* runs: the row cannot be inserted, an unresolved row being erased by     *)
(* then, or cannot be erased.                                              *)
BeginFails(k) ==
    \E query \in {0, 1}, left \in {NoRow, FailedRow(k)} :
        /\ MayRun(k, query)
        /\ Faults(1 + query)
        /\ idem[k] = NoRow => left = NoRow
        /\ idem' = [idem EXCEPT ![k] = left]
        /\ reply' = IF idem[k] = NoRow
                      THEN Reply(k, "failed", 0)
                      ELSE Reply(k, "busy", Balance(World, Cmd[k].player, Cmd[k].currency))
        /\ UNCHANGED <<world, ledger, clock, history>>

NewRow == [st |-> "InFlight", deadline |-> clock + Ttl, balance |-> 0]

(* A rejected command gives its key back, unless Abort fails: then the row *)
(* stays in flight.                                                        *)
RunRejected(k) ==
    \E query, abort \in {0, 1} : LET out == Do(World, Cmd[k]) IN
        /\ MayRun(k, query)
        /\ Faults(query + abort)
        /\ ~out.applied
        /\ wallet' = out.world.wallet /\ bag' = out.world.bag
        /\ minted' = out.world.minted /\ burned' = out.world.burned
        /\ idem' = [idem EXCEPT ![k] = IF abort = 1 THEN NewRow ELSE NoRow]
        /\ reply' = Reply(k, "rejected", out.balance)
        /\ UNCHANGED <<ledger, clock, history>>

(* SingleFault is an assumption about the deployment, not about the code:  *)
(* the idempotency table does not fail in a call in which the ledger does, *)
(* the ledger can be asked when a key expires, and it has stored by then   *)
(* what it accepted under that key (see Tick).                             *)
CommitMayFail(e, drain) == SingleFault => Posted(e, drain)

(* A command that applies is posted to the ledger and committed; when the  *)
(* commit fails the caller is told so and the row stays in flight.         *)
RunApplied(k) ==
    \E query, drain, commit \in {0, 1} :
        LET out == Do(World, Cmd[k])
            e   == Entry(k, out)
        IN
        /\ MayRun(k, query)
        /\ Faults(query + drain + commit)
        /\ out.applied
        /\ wallet' = out.world.wallet /\ bag' = out.world.bag
        /\ minted' = out.world.minted /\ burned' = out.world.burned
        /\ PostLedger(e, drain)
        /\ commit = 1 => CommitMayFail(e, drain)
        /\ idem' = [idem EXCEPT ![k] =
              IF commit = 0
                THEN [st |-> "Completed", deadline |-> 0, balance |-> out.balance]
                ELSE NewRow]
        /\ reply' = Reply(k, IF commit = 0 THEN "applied" ELSE "failed", out.balance)
        /\ effects' = [effects EXCEPT ![k] = @ + 1]
        /\ first' = IF effects[k] = 0 THEN [first EXCEPT ![k] = out.balance] ELSE first
        /\ UNCHANGED clock

Execute(k) ==
    \/ Replay(k)
    \/ Blocked(k)
    \/ Unreadable(k)
    \/ Recover(k)
    \/ BeginFails(k)
    \/ RunRejected(k)
    \/ RunApplied(k)

(* Ledger::Flush: the whole buffer, or a prefix of it that stays buffered. *)
FlushAll == ring' = <<>> /\ rows' = RowsAfter(Len(ring)) /\ UNCHANGED faults

FlushSome ==
    /\ Faults(1)
    /\ \E n \in 0..Len(ring) - 1 : rows' = RowsAfter(n)
    /\ UNCHANGED ring

Flush ==
    /\ ring # <<>>
    /\ FlushAll \/ FlushSome
    /\ UNCHANGED <<world, idem, pending, flagged, clock, reply, history>>

Tick ==
    /\ clock < MaxClock
    /\ clock' = clock + 1
    /\ SingleFault =>
          \A k \in BufferedKeys :
              InFlight(k) /\ clock' >= idem[k].deadline => k \in StoredKeys
    /\ UNCHANGED <<world, idem, ledger, faults, reply, history>>

Next ==
    \/ \E k \in Keys : Execute(k)
    \/ Flush
    \/ Tick

Spec == Init /\ [][Next]_vars

(* The persistence thread flushes again and again, and a flush succeeds in *)
(* the end.                                                                *)
FlushFairness ==
    WF_vars(/\ ring # <<>>
            /\ FlushAll
            /\ UNCHANGED <<world, idem, pending, flagged, clock, reply, history>>)

FairSpec == Spec /\ FlushFairness

-----------------------------------------------------------------------------
Rows == [st : {"none", "InFlight", "Failed", "Completed"},
         deadline : 0..(MaxClock + Ttl), balance : 0..MaxBalance]

Entries == [key : Keys, player : Players, peer : Players \cup {NoPlayer},
            currency : Currencies \cup {NoCurrency},
            balance : 0..MaxBalance, delta : -MaxBalance..MaxBalance]

BagType == [slot : [1..Slots -> [def : Defs \cup {NoDef}, n : Nat]],
         free : Seq(1..Slots), next : 1..Slots + 1]

MoneyOK ==
    /\ wallet \in [Players -> [Currencies -> 0..MaxBalance]]
    /\ minted \in Nat /\ burned \in Nat
    /\ idem \in [Keys -> Rows]
    /\ ring \in Seq(Entries) /\ Len(ring) <= Capacity
    /\ rows \subseteq Entries
    /\ pending \in Nat /\ flagged \subseteq Keys
    /\ clock \in 0..MaxClock /\ faults \in 0..MaxFaults
    /\ effects \in [Keys -> Nat]
    /\ first \in [Keys -> 0..MaxBalance]

BagsOK ==
    /\ bag \in [Players -> BagType]
    /\ \A p \in Players, i \in 1..Slots : LET s == bag[p].slot[i] IN
          IF s.def = NoDef THEN s.n = 0 ELSE s.n \in 1..MaxStack[s.def]

(* Every variable keeps its type: no balance leaves 0..MaxBalance and no   *)
(* stack grows past its definition's limit.                                *)
TypeOK == MoneyOK /\ BagsOK

(* INTERFACE.md 2: TotalBalance() = total_minted - total_burned, across    *)
(* rejected commands, rollbacks, transfers and repeated executions.        *)
Cells == Players \X Currencies

Cash(money) == [cell \in Cells |-> money[cell[1]][cell[2]]]

TotalBalance == SumFunctionOnSet(Cash(wallet), Cells)

Conservation == TotalBalance = minted - burned

(* What the ledger holds, stored or still buffered, and what it says of a  *)
(* player and a currency; a peer's part of a transfer is read from the     *)
(* payer's only entry.                                                     *)
PostedEntries == RowsAfter(Len(ring))

Concerning(log, p, c) ==
    {e \in log : e.currency = c /\ p \in {e.player, e.peer}}

Share(log, p) == [e \in log |-> IF e.player = p THEN e.delta ELSE -e.delta]

Net(log, p, c) == SumFunctionOnSet(Share(log, p), Concerning(log, p, c))

(* A balance the ledger cannot tell: a command that moved it was flagged.  *)
Untold(p, c) ==
    \E k \in flagged : Cmd[k].currency = c /\ p \in {Cmd[k].player, Cmd[k].peer}

(* INTERFACE.md 6 and 16: the ledger explains every balance that no flagged*)
(* command moved, the flagged commands are exactly those that took effect  *)
(* and are in no entry, and the counter the operator reads is their number.*)
(* An entry the ledger refused stays flagged for good: what is lost is     *)
(* known, and never repaired (EntriesAreRedelivered).                      *)
LedgerExplainsBalances ==
    /\ \A p \in Players, c \in Currencies :
          ~Untold(p, c) => wallet[p][c] = Net(PostedEntries, p, c)
    /\ flagged = {k \in Keys : effects[k] > 0} \ KeysOf(PostedEntries)
    /\ pending = Cardinality(flagged)

(* What INTERFACE.md 6 promises of a flagged entry, and economy_system.h 39*)
(* calls "to be redelivered": whatever took effect is in the ledger's store*)
(* in the end.  No code delivers an entry again, so this does not hold.    *)
EntriesAreRedelivered ==
    \A k \in Keys : effects[k] > 0 ~> k \in StoredKeys

(* A command takes effect at most once, however often its key is sent,     *)
(* whichever call failed and whenever its row expired (idempotency_store.h,*)
(* Execute steps 2 and 7).                                                 *)
AtMostOnce == \A k \in Keys : effects[k] <= 1

(* A command that took effect is remembered, whatever failed since: its    *)
(* key has a row in the idempotency table, and the row answers with the    *)
(* first result once it is complete (Abort and RebeginIdempotency delete no*)
(* row they still need).                                                   *)
NeverForgotten ==
    \A k \in Keys :
        effects[k] > 0 =>
            /\ idem[k] # NoRow
            /\ idem[k].st = "Completed" => idem[k].balance = first[k]

(* INTERFACE.md 5 and 17: whoever sends a key again, before or after it    *)
(* expired, is answered with the result of the execution that took effect. *)
ReplayIsFirstResult ==
    reply.kind = "replayed" =>
        effects[reply.key] > 0 /\ reply.balance = first[reply.key]

(* INTERFACE.md 4: a command that is refused leaves every balance and the  *)
(* items of every player as they were.                                     *)
Contents(b) == [d \in Defs |-> Held(b, d)]

RefusedIsNoOp ==
    [][reply'.kind \in {"rejected", "busy", "replayed"} =>
          /\ wallet' = wallet /\ minted' = minted /\ burned' = burned
          /\ \A p \in Players : Contents(bag'[p]) = Contents(bag[p])]_vars

(* economy_system.cpp 463: money and goods change hands together: over all *)
(* bags, a command changes the number of units of an item by what it names *)
(* and, if it is a transfer, not at all.                                   *)
Units(b, d) == MapThenSumSet(LAMBDA p : Held(b[p], d), Players)

Named(c, d) ==
    IF c.op = "Transfer" THEN 0
    ELSE MapThenSumSet(LAMBDA i : IF c.items[i].def = d THEN c.items[i].n ELSE 0,
                       1..Len(c.items))

DeliveredInFull ==
    [][\A k \in Keys, d \in Defs :
          effects'[k] > effects[k] =>
              Units(bag', d) - Units(bag, d) = Named(Cmd[k], d)]_vars

=============================================================================
