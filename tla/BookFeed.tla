------------------------------- MODULE BookFeed -------------------------------
(* The messages that itch_parser.sv hands to a book. *)
EXTENDS BookEdges

CONSTANTS Refs,           \* order references that the feed uses
          Sides,          \* sides
          Prices, Shares, \* prices and share counts
          MsgTypes        \* message types

ASSUME FeedAssumption ==
  /\ Refs \subseteq Nat /\ Prices \subseteq Nat /\ Shares \subseteq Size
  /\ Sides \subseteq Side /\ MsgTypes \subseteq MsgType

(* The messages the parser can hold: it repeats the reference as the new one, *)
(* and gives bid, price 0, where the type has no such field.  The fields that *)
(* the book does not read of a type are left at one value.                    *)
Msg(t, ref, nref, side, shares, price) ==
  [type |-> t, ref |-> ref, nref |-> nref, side |-> side,
   shares |-> shares, price |-> price]

AddMessages ==
  {Msg(t, r, r, s, q, p) : t \in MsgTypes \cap AddTypes, r \in Refs,
                           s \in Sides, q \in Shares, p \in Prices}
LookupMessages ==
  {Msg(t, r, r, "bid", q, 0) : t \in MsgTypes \cap ReduceTypes,
                               r \in Refs, q \in Shares}
    \cup {Msg(t, r, r, "bid", 0, 0) : t \in MsgTypes \cap {"D"}, r \in Refs}
    \cup {Msg(t, r, n, "bid", q, p) : t \in MsgTypes \cap {"U"}, r \in Refs,
                                      n \in Refs, q \in Shares, p \in Prices}
IgnoredMessages ==
  {Msg(t, r, r, "bid", 0, 0) :
     t \in MsgTypes \ (AddTypes \cup LookupTypes), r \in Refs}

\* The slot that the message fills in book b is free, or given up by the order
\* that it replaces.
SlotFree(b, msg) ==
  CASE msg.type \in AddTypes -> Idx(msg.ref) \notin b.entry_valid
    [] msg.type = "U" -> Idx(msg.nref) \notin b.entry_valid \ {Idx(msg.ref)}
    [] OTHER -> TRUE

Messages == AddMessages \cup LookupMessages \cup IgnoredMessages
=============================================================================
