---------------------------- MODULE BlockStream -----------------------------
(***************************************************************************)
(* From the node to the handlers: construct_near_indexer_config chooses    *)
(* the height the stream starts from, the node (an external library in the *)
(* same process) puts the messages of the blocks into a bounded channel    *)
(* and remembers the last one, and listen_blocks (src/src/main.rs) hands   *)
(* them to at most Concurrency handlers.  Of a handler this module keeps   *)
(* the row of the blocks table, which a later start reads, and the end.    *)
(***************************************************************************)
EXTENDS Integers, FiniteSets

CONSTANTS
    Heights,      \* the heights that have a block; the chain may skip some
    Args,         \* command lines the indexer is started with
    Concurrency,  \* --concurrency
    Capacity,     \* capacity of the channel of the node
    MaxErrors,    \* bound: handlers and queries that fail
    MaxStarts,    \* bound: starts of the process
    NoHeight      \* absent height

(* delta is of sync-from-interruption, height of sync-from-block, stop is  *)
(* --stop-after-number-of-blocks, 0 when it is not given.                  *)
ArgsType == [mode : {"interruption", "block", "latest"},
             delta : Nat, height : Nat, stop : Nat]

ASSUME StreamConstants ==
    /\ Heights \subseteq Nat /\ IsFiniteSet(Heights)
    /\ Args \subseteq ArgsType
    /\ Concurrency \in Nat \ {0}
    /\ Capacity \in Nat \ {0}
    /\ MaxErrors \in Nat
    /\ MaxStarts \in Nat
    /\ NoHeight \notin Nat

VARIABLES
    head,       \* height of the latest block the node knows
    mark,       \* last_synced_block_height in the database of the node
    unmarked,   \* the node has sent a block and not yet moved its mark
    up,         \* the process runs
    left,       \* blocks take(n) lets through, NoHeight without a limit
    nextSend,   \* the next height the node looks at
    nextTake,   \* the channel holds the blocks from nextTake below nextSend
    handler,    \* progress of the handler of a block
    blockRows,  \* heights in the blocks table
    handled,    \* heights whose handler has returned Ok, in any run
    origin,     \* where the operator asked the index to begin
    blind,      \* told to continue, but found no row to continue from
    errors, starts

stream == <<mark, unmarked, nextSend>>
ends   == <<errors, starts>>
vars   == <<head, stream, up, left, nextTake, handler, blockRows, handled,
            origin, blind, ends>>

InFlight == {h \in Heights : handler[h] # "none"}
Channel  == {h \in Heights : nextTake <= h /\ h < nextSend}
NoHandlers == [h \in Heights |-> "none"]

Init ==
    /\ head \in Heights
    /\ mark = NoHeight
    /\ unmarked = FALSE
    /\ up = FALSE
    /\ left = NoHeight
    /\ nextSend = 0
    /\ nextTake = 0
    /\ handler = NoHandlers
    /\ blockRows = {}
    /\ handled = {}
    /\ origin = 0
    /\ blind = FALSE
    /\ errors = 0
    /\ starts = 0

-----------------------------------------------------------------------------
(* The node: a new final block.                                            *)
Produce(h) ==
    /\ h > head
    /\ head' = h
    /\ UNCHANGED <<stream, up, left, nextTake, handler, blockRows, handled,
                   origin, blind, ends>>

(* FromInterruption, LatestSynced and BlockHeight as the node reads them.  *)
AfterMark == IF mark = NoHeight THEN head ELSE mark + 1

(* Bugs: a subtraction that does not saturate; the stream goes on after    *)
(* the latest row.                                                         *)
PlainSub(x, y)    == x - y
AfterLatest(x, y) == x + 1

SaturatingSub(x, y) == IF x > y THEN x - y ELSE 0

Latest(h) == h \in blockRows /\ \A x \in blockRows : x <= h

(* construct_near_indexer_config.  A delta of 1 leaves the start to the    *)
(* mark of the node; so do an empty database and a failing query.          *)
StartsFrom(a, h) ==
    \/ a.mode = "block"  /\ h = a.height
    \/ a.mode = "latest" /\ h = head
    \/ a.mode = "interruption" /\ a.delta = 1 /\ h = AfterMark
    \/ a.mode = "interruption" /\ a.delta # 1 /\ blockRows = {} /\ h = AfterMark
    \/ /\ a.mode = "interruption" /\ a.delta # 1
       /\ \E x \in blockRows : Latest(x) /\ h = SaturatingSub(x, a.delta)

(* The index begins anew the first time, and where the operator names a    *)
(* height above every row; any other start is to go on with what is there. *)
BeginsAnew(a, h) ==
    \/ starts = 0
    \/ a.mode # "interruption" /\ \A x \in blockRows : x < h

(* Told to continue with an empty table, as after a stop before the first  *)
(* row: the mark of the node decides, past what was sent and not stored.   *)
GoesBlind(a) == starts > 0 /\ a.mode = "interruption" /\ blockRows = {}

StartAt(a, h) ==
    /\ ~up /\ starts < MaxStarts
    /\ starts' = starts + 1
    /\ up' = TRUE
    /\ left' = IF a.stop = 0 THEN NoHeight ELSE a.stop
    /\ nextSend' = h
    /\ nextTake' = h
    /\ unmarked' = FALSE
    /\ origin' = IF BeginsAnew(a, h) THEN h ELSE origin
    /\ blind' = (~BeginsAnew(a, h) /\ (blind \/ GoesBlind(a)))
    /\ UNCHANGED <<head, mark, handler, blockRows, handled>>

Start(a) ==
    /\ \E h \in Heights \cup {0, a.height, AfterMark} \cup
              {SaturatingSub(x, a.delta) : x \in blockRows} :
          StartsFrom(a, h) /\ StartAt(a, h)
    /\ UNCHANGED errors

(* latest_block_height(pool).await.ok(): the error is not looked at.       *)
StartWithoutDb(a) ==
    /\ a.mode = "interruption" /\ a.delta # 1
    /\ errors < MaxErrors
    /\ errors' = errors + 1
    /\ StartAt(a, AfterMark)

-----------------------------------------------------------------------------
(* The node: heights without a block are passed over, a full channel makes *)
(* it wait, and the mark moves when the message is in the channel.         *)
Send(h) ==
    /\ up /\ ~unmarked
    /\ nextSend <= h /\ h <= head
    /\ \A x \in Heights : x >= nextSend => h <= x
    /\ Cardinality(Channel) < Capacity
    /\ nextSend' = h + 1
    /\ unmarked' = TRUE
    /\ UNCHANGED <<head, mark, up, left, nextTake, handler, blockRows, handled,
                   origin, blind, ends>>

Mark ==
    /\ up /\ unmarked
    /\ mark' = nextSend - 1
    /\ unmarked' = FALSE
    /\ UNCHANGED <<head, nextSend, up, left, nextTake, handler, blockRows,
                   handled, origin, blind, ends>>

-----------------------------------------------------------------------------
(* Bug: one handler too many.                                              *)
HasRoomPlusOne == Cardinality(InFlight) <= Concurrency

(* listen_blocks: buffer_unordered(concurrency), and take(n).              *)
HasRoom == Cardinality(InFlight) < Concurrency

Take(h) ==
    /\ up /\ left # 0
    /\ h \in Channel /\ \A x \in Channel : h <= x
    /\ HasRoom
    /\ nextTake' = h + 1
    /\ left' = IF left = NoHeight THEN left ELSE left - 1
    /\ handler' = [handler EXCEPT ![h] = "block"]
    /\ UNCHANGED <<head, stream, up, blockRows, handled, origin, blind, ends>>

(* handle_message: store_block, then everything else.                      *)
StoreBlock(h) ==
    /\ handler[h] = "block"
    /\ blockRows' = blockRows \cup {h}
    /\ handler' = [handler EXCEPT ![h] = "rest"]
    /\ UNCHANGED <<head, stream, up, left, nextTake, handled, origin, blind, ends>>

HandleOk(h) ==
    /\ handler[h] = "rest"
    /\ handled' = handled \cup {h}
    /\ handler' = [handler EXCEPT ![h] = "none"]
    /\ UNCHANGED <<head, stream, up, left, nextTake, blockRows, origin, blind, ends>>

(* while let Some(_handled_message) = ...: the error is not looked at.     *)
HandleErr(h) ==
    /\ handler[h] # "none"
    /\ errors < MaxErrors
    /\ errors' = errors + 1
    /\ handler' = [handler EXCEPT ![h] = "none"]
    /\ UNCHANGED <<head, stream, up, left, nextTake, blockRows, handled, origin, blind,
                   starts>>

(* The stream has ended: the indexer is shut down.                         *)
ShutDown ==
    /\ up /\ left = 0 /\ InFlight = {}
    /\ up' = FALSE
    /\ UNCHANGED <<head, stream, left, nextTake, handler, blockRows, handled,
                   origin, blind, ends>>

(* The process stops: the channel and the handlers are gone.               *)
Crash ==
    /\ up /\ starts < MaxStarts
    /\ up' = FALSE
    /\ handler' = NoHandlers
    /\ UNCHANGED <<head, stream, left, nextTake, blockRows, handled, origin, blind, ends>>

Indexer(h) == Take(h) \/ StoreBlock(h) \/ HandleOk(h)
Node == Mark \/ \E h \in Heights : Send(h)

Next ==
    \/ \E h \in Heights : Produce(h) \/ Indexer(h) \/ HandleErr(h)
    \/ \E a \in Args : Start(a) \/ StartWithoutDb(a)
    \/ Node \/ ShutDown \/ Crash

Spec == Init /\ [][Next]_vars

(* The node streams what it has, the handlers are polled, and the service  *)
(* is started again when it is down.                                       *)
FairSpec ==
    /\ Spec
    /\ WF_vars(Node) /\ WF_vars(ShutDown)
    /\ WF_vars(\E a \in Args : Start(a))
    /\ \A h \in Heights : WF_vars(Indexer(h))

-----------------------------------------------------------------------------
TypeOK ==
    /\ head \in Heights
    /\ mark \in Nat \cup {NoHeight}
    /\ unmarked \in BOOLEAN
    /\ up \in BOOLEAN
    /\ left \in Nat \cup {NoHeight}
    /\ nextSend \in Nat /\ nextTake \in Nat
    /\ handler \in [Heights -> {"none", "block", "rest"}]
    /\ blockRows \subseteq Heights
    /\ handled \subseteq Heights
    /\ origin \in Nat
    /\ blind \in BOOLEAN
    /\ errors \in 0..MaxErrors
    /\ starts \in 0..MaxStarts

(* What the stream has passed, from where the index begins, is handled or  *)
(* being handled.                                                          *)
Covered ==
    \A h \in Heights : origin <= h /\ h < nextTake =>
        h \in handled \/ handler[h] # "none"

(* No block is left out as long as no handler and no query fails and every *)
(* start that is to continue finds a row to continue from, however often   *)
(* the indexer was interrupted.  A block in the channel or in a handler    *)
(* when the process stops must come again (construct_near_indexer_config). *)
(* Without a row the code leaves out what was sent before: see GoesBlind.  *)
NoGap == up /\ errors = 0 /\ ~blind => Covered

(* Every block of the chain from the origin on is handled in the end, once *)
(* the indexer runs without a limit of blocks, nothing fails and no start  *)
(* found an empty table where it was to continue (listen_blocks).          *)
EventuallyHandled ==
    <>[](up /\ left = NoHeight /\ errors = 0 /\ ~blind) =>
        \A h \in Heights : <>[](h <= head /\ origin <= h) => <>(h \in handled)
=============================================================================
