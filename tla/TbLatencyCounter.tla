-------------------------- MODULE TbLatencyCounter --------------------------
(***************************************************************************)
(* tb_latency_counter.py: the tests of the latency counter, which pulse    *)
(* its two inputs and read the registers over AXI-Lite.                    *)
(***************************************************************************)
EXTENDS BenchOps

(* Register addresses, as LatencyCounter writes them. *)
HIST(i)  == <<"hist", i>>
LATENCY  == <<"last", 0>>
CLEAR    == <<"clear", 0>>
UNMAPPED == <<"none", 0>>

DEAD_BEEF == -2

axil_read(addr, value) == Clocks(1, Unwritten) \o Read(addr, {value})

axil_write(addr) == Clocks(1, Unwritten) \o Write(addr)

reset == Clocks(4, [rst |-> TRUE]) \o Clocks(2, Unwritten)

measure(gap_cycles) ==
    Clocks(1, [start |-> TRUE]) \o Clocks(gap_cycles - 1, Unwritten)
    \o Clocks(1, [done |-> TRUE]) \o Clocks(2, Unwritten)

-----------------------------------------------------------------------------
test_single_measurement ==
    reset \o measure(10) \o axil_read(LATENCY, 10) \o axil_read(HIST(10), 1)

test_histogram_accumulation ==
    reset \o measure(15) \o measure(15) \o measure(15) \o measure(15) \o measure(15)
    \o axil_read(HIST(15), 5)

test_clear_register ==
    reset \o measure(20) \o axil_read(LATENCY, 20) \o axil_write(CLEAR)
    \o axil_read(LATENCY, 0) \o axil_read(HIST(20), 0)

test_bucket_saturation == reset \o measure(100) \o axil_read(HIST(63), 1)

test_undefined_address == reset \o axil_read(UNMAPPED, DEAD_BEEF)

Tests == test_single_measurement \o test_histogram_accumulation \o test_clear_register
         \o test_bucket_saturation \o test_undefined_address
=============================================================================
