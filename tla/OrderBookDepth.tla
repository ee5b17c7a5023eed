---------------------------- MODULE OrderBookDepth ----------------------------
(* OrderBookM2 implements DepthBook: with one live order at most in a slot,   *)
(* what order_book_m2.sv shows is the exact depth of the orders it was sent.  *)
EXTENDS OrderBookM2, BookDepth

\* The table as orders by reference: each is found in the slot of its reference.
LiveOrders ==
  [r \in {book.entries[i].ref : i \in book.entry_valid} |->
     LET e == book.entries[Idx(r)]
     IN  [side |-> e.side, price |-> e.price, shares |-> e.shares]]

\* The edit that the message looked up asks for.
AskedFor ==
  [kind   |-> CASE book.m.type \in ReduceTypes -> "reduce"
                [] book.m.type = "D"           -> "remove"
                [] book.m.type = "U"           -> "replace",
   ref    |-> book.m.ref,    nref  |-> book.m.nref,
   shares |-> book.m.shares, price |-> book.m.price]

Promise == INSTANCE DepthBook WITH
  orders <- LiveOrders,
  shown  <- book.lv,
  asked  <- IF book.state = "LOOKUP" THEN AskedFor ELSE [kind |-> "none"],
  busy   <- book.state = "RESCAN"

(* Every edge of the book is a step of DepthBook or changes nothing it talks  *)
(* of: adds are shown at once, an edit changes the order it names as its type *)
(* says, and what is shown stays as it was until the rescan, which shows the  *)
(* exact top NLevels prices and sizes.  Edits are served and rescans end.     *)
ImplementsDepthBook == Promise!Spec

(* A rescan always commits the depth of the table as it stands, also after    *)
(* an add has overwritten a live order: a rescan repairs the display.         *)
TableOrders == [i \in book.entry_valid |-> book.entries[i]]

RescanRebuilds ==
  [][Commit => \A s \in Side : book'.lv[s] = DepthOf(TableOrders, s)]_book
=============================================================================
