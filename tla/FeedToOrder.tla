----------------------------- MODULE FeedToOrder -----------------------------
(***************************************************************************)
(* The card between a feed and the orders it sends: the DMA streams the     *)
(* messages of a trading day, one byte an edge, honours s_axis_tready, and  *)
(* may pause before a message; the books, the path and the counter run all  *)
(* the while.  edition and crossed are history: for the last three edges,   *)
(* which symbol's ladder the path was shown and how many messages it        *)
(* reflects; and whether an idle book was put a message that another held   *)
(* back, which it applies at each edge (BooksAlwaysFollow).                 *)
(***************************************************************************)
EXTENDS TickToTrade

CONSTANTS Feed,             \* contents that the feed may send, each once
          MAX_MESSAGES, MAX_UPSETS,     \* bounds: messages, pauses and resets,
          MAX_REST,                     \* and edges after the day
          RESET_AT          \* bytes at which a reset may come: a bound too

(* What the parser gives the books for a message of the feed; a field that   *)
(* they do not read of its type is left at one value, as in BookFeed.         *)
AsDecoded(c) ==
    Msg(c.type, c.ref, c.new_ref,
        IF c.type \in AddTypes THEN c.side ELSE "bid",
        IF c.type \in {"D", "P"} THEN 0 ELSE c.sh,
        IF c.type \in AddTypes \cup {"U"} THEN c.pr ELSE 0)

ASSUME CardAssumption ==
    /\ NSymbols \in Nat \ {0} /\ Locates \subseteq Nat
    /\ \A c \in Feed : c.loc \in Locates /\ c.side \in Side /\ AsDecoded(c) \in Messages
    /\ MAX_MESSAGES \in Nat \ {0} /\ MAX_UPSETS \in Nat /\ MAX_REST \in Nat
    /\ RESET_AT \subseteq Nat

VARIABLES upsets,       \* pauses, edges without a byte between messages, and resets
          rest,         \* edges since the last message was applied
          lost,         \* messages sent before the last reset
          edition,
          crossed       \* a message has waited for the book of another symbol

card == <<parser, engine, strategy, gate, counter>>
vars == <<card, bus, upsets, rest, lost, edition, crossed>>

-----------------------------------------------------------------------------
Sent == {stream[k] : k \in 1 .. Len(stream)}

(* No two orders of a symbol share a slot: the reference that each adds, or   *)
(* is given by a replace, selects one of its own.                             *)
Creates(c)   == c.type \in AddTypes \cup {"U"}
SlotPerOrder ==
    \A c, d \in Feed :
        Creates(c) /\ Creates(d) /\ Engine!SymOf(c.loc) = Engine!SymOf(d.loc)
          /\ Idx(c.new_ref) = Idx(d.new_ref) => c = d

(* Messages whose last byte has gone in, and of these the ones that a book  *)
(* has taken.                                                               *)
Completed == IF cur = Parser!NoMessage THEN Len(stream) ELSE Len(stream) - 1
Accepted  == IF m_valid THEN Completed - 1 ELSE Completed

Starts(c) == /\ stream' = Append(stream, c)
             /\ cur' = Numbered(Len(stream) + 1, c)

NextMessage ==
    IF Len(stream) < MAX_MESSAGES
      THEN \E c \in Feed \ Sent : Starts(c)
      ELSE cur' = Parser!NoMessage /\ UNCHANGED stream

(* The day is over, its last message is taken and the last rescan done.     *)
Drained == /\ cur = Parser!NoMessage /\ ~m_valid
           /\ \A s \in Engine!Sym : msg_ready(books[s])

(* A byte is taken, or stays on the bus. *)
FeedEdge(tvalid) ==
    \/ ~rx(tvalid) /\ UNCHANGED bus
    \/ rx(tvalid) /\ ~Parser!tlast /\ at' = at + 1 /\ UNCHANGED <<stream, cur>>
    \/ rx(tvalid) /\ Parser!tlast /\ at' = 0 /\ NextMessage

(* What the ladder of the active symbol reflects: all that was accepted, or *)
(* all but the last message while its book looks up or rescans.             *)
Reflected == [sym  |-> active_sym,
              upto |-> IF msg_ready(books[active_sym]) THEN Accepted ELSE Accepted - 1]

Remember == /\ edition' = <<Reflected, edition[1], edition[2]>>
            /\ crossed' = (crossed \/ Engine!Crosses)

Blank == [sym |-> 0, upto |-> 0]

Init ==
    /\ InitTop
    /\ \E c \in Feed : stream = <<c>> /\ cur = Numbered(1, c)
    /\ at = 0 /\ upsets = 0 /\ rest = 0 /\ lost = 0
    /\ edition = <<Blank, Blank, Blank>> /\ crossed = FALSE

Byte ==
    /\ cur # Parser!NoMessage
    /\ TopEdge(TRUE, FALSE, QuietHost) /\ FeedEdge(TRUE) /\ Remember
    /\ UNCHANGED <<upsets, rest, lost>>

(* Nothing is on the bus: a pause, or the day is over.  The kill switch     *)
(* stays off: OrderPath has it on at any edge.                              *)
Pause ==
    /\ \/ /\ cur # Parser!NoMessage /\ at = 0
          /\ upsets < MAX_UPSETS /\ upsets' = upsets + 1 /\ UNCHANGED rest
       \/ /\ cur = Parser!NoMessage /\ rest < MAX_REST
          /\ rest' = (IF Drained THEN rest + 1 ELSE 0) /\ UNCHANGED upsets
    /\ TopEdge(FALSE, FALSE, QuietHost) /\ FeedEdge(FALSE) /\ Remember
    /\ UNCHANGED lost

Edge == Byte \/ Pause

(* rst_n.  The message under way starts anew, the message held is lost.     *)
Reset ==
    /\ at \in RESET_AT /\ upsets < MAX_UPSETS /\ upsets' = upsets + 1
    /\ TopReset
    /\ lost' = Completed /\ at' = 0 /\ rest' = 0
    /\ edition' = <<Blank, Blank, Blank>> /\ crossed' = FALSE
    /\ UNCHANGED <<stream, cur>>

Next == Edge \/ Reset

(* The clock does not stop, and the DMA does not pause for ever. *)
Spec == Init /\ [][Next]_vars /\ WF_vars(Edge)

-----------------------------------------------------------------------------
(* What the books ought to hold *)
AskedFor(c) ==
    [kind |-> CASE c.type \in ReduceTypes -> "reduce"
                [] c.type = "D"           -> "remove"
                [] c.type = "U"           -> "replace",
     ref |-> c.ref, nref |-> c.new_ref, shares |-> c.sh, price |-> c.pr]

Applied(O, c) ==
    CASE c.type \in AddTypes ->
           With(O, c.ref, [side |-> c.side, price |-> c.pr, shares |-> c.sh])
      [] c.type \in LookupTypes -> ServedBy(O, AskedFor(c))
      [] OTHER -> O

(* The orders of symbol s after the first n messages of a day, one after     *)
(* another, of which a reset has lost the first so many.                     *)
After(day, before, s, n) ==
    LET upTo[k \in 0 .. n] ==
            IF k <= before THEN NoOrders
            ELSE IF Engine!SymOf(day[k].loc) = s THEN Applied(upTo[k - 1], day[k])
                 ELSE upTo[k - 1]
    IN  upTo[n]

OrdersAfter(s, n) == After(stream, lost, s, n)

OrdersOf(b) ==
    [r \in {b.entries[i].ref : i \in b.entry_valid} |->
        LET e == b.entries[Idx(r)]
        IN  [side |-> e.side, price |-> e.price, shares |-> e.shares]]

-----------------------------------------------------------------------------
(* Each book that is idle holds the orders that result from the messages of *)
(* its symbol, each applied once and in the order they were sent, and shows *)
(* their depth: "the engine accepts a new message only when EVERY book is   *)
(* idle" (multi_symbol_book.sv:11).                                         *)
BooksAlwaysFollow ==
    \A s \in Engine!Sym : msg_ready(books[s]) =>
        LET O == OrdersAfter(s, Accepted)
        IN  OrdersOf(books[s]) = O /\ books[s].lv = Depth(O)

(* The same until a message waits for the book of another symbol: nothing   *)
(* of the stream is lost, repeated or put into another book, whatever was   *)
(* held back by a rescan of its own symbol.                                 *)
BooksFollowFeed == ~crossed => BooksAlwaysFollow

(* An order that leaves was called for by the exact depth of its symbol     *)
(* three edges before, after every message the book had taken by then, or   *)
(* after all but the last of them if that one was still being rescanned:    *)
(* never by a ladder older than that, half built, or of another symbol.     *)
OrderReflectsFeed ==
    risk.valid /\ ~crossed =>
        LET e == edition[3]
            s == SnapshotOf(e.sym, Depth(OrdersAfter(e.sym, e.upto)))
        IN  Path!Tradable(s) /\ Path!Calls(s, risk) /\ tag.out = e.sym

(* Messages whose first byte has gone in. *)
Begun == IF cur = Parser!NoMessage \/ at > 0 THEN Len(stream) ELSE Len(stream) - 1

(* "An on-chip cycle counter stamps the entry and exit of every message"      *)
(* (docs/executive_summary.tex:112): a sample is taken from the first byte of *)
(* the message whose ladder called for the order, and no later one.           *)
SampleOfItsMessage == risk.valid /\ measuring => edition[3].upto = Begun

(* The books are used as MultiSymbolBook assumes: no message is put to them *)
(* while one looks up a slot, and each message comes decoded as the feed    *)
(* meant it; so what is proved of that specification holds of the card.     *)
EngineUsedAsSpecified == Engine!Init /\ [][Engine!Next]_(Engine!vars)

(* The parser, the books and the DMA do not wait for each other for ever:   *)
(* every message of the day is taken and its rescan ends.                   *)
FeedDrained == <>Drained
=============================================================================
