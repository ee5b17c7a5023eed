----------------------------- MODULE SynthItch -----------------------------
(***************************************************************************)
(* synth_itch.py and what golden/itch_parser.py makes of its messages.  A  *)
(* message is its content: lengths and the place of each field are those   *)
(* of ItchParser, and time stamps, framing and symbol names are left out.  *)
(* loc is the stock_locate that the generator was made with.               *)
(***************************************************************************)
EXTENDS Naturals, Sequences

Content(type, loc, ref, nref, side, shares, price) ==
    [type |-> type, loc |-> loc, ref |-> ref, new_ref |-> nref, side |-> side,
     sh |-> shares, pr |-> price]

add(loc, ref, side, shares, price)      == Content("A", loc, ref, ref, side, shares, price)
add_mpid(loc, ref, side, shares, price) == Content("F", loc, ref, ref, side, shares, price)
trade(loc, ref, side, shares, price)    == Content("P", loc, ref, ref, side, shares, price)
cancel(loc, ref, shares)  == Content("X", loc, ref, ref, "bid", shares, 0)
delete(loc, ref)          == Content("D", loc, ref, ref, "bid", 0, 0)
execute(loc, ref, shares) == Content("E", loc, ref, ref, "bid", shares, 0)
execute_with_price(loc, ref, shares, price) ==
    Content("C", loc, ref, ref, "bid", shares, price)
replace(loc, orig_ref, new_ref, shares, price) ==
    Content("U", loc, orig_ref, new_ref, "bid", shares, price)

scenario_basic(loc) ==
    << add(loc, 1, "bid", 200, 1499900), add(loc, 2, "ask", 150, 1500100),
       add(loc, 3, "bid", 300, 1499900), cancel(loc, 3, 100), execute(loc, 2, 50) >>

(* A ParsedMsg, as the golden book and the test benches read it. *)
ParsedMsg(c) == [type |-> c.type, ref |-> c.ref, nref |-> c.new_ref, side |-> c.side,
                 shares |-> c.sh, price |-> c.pr]

parse_stream(s) == [i \in 1 .. Len(s) |-> ParsedMsg(s[i])]
=============================================================================
