----------------------------- MODULE MCPeriphery -----------------------------
(***************************************************************************)
(* The hardware around the core and the host code below the graph, one     *)
(* scenario each, so that their states add up and do not multiply.         *)
(***************************************************************************)
EXTENDS GraphDma, NocRouter, AssociativeCache, Crossbar, MemoryMapper, PcieDriver,
        PynqHal

VARIABLE scenario

MCSize == [x \in Buffer |-> IF x = CHOOSE y \in Buffer : TRUE THEN 2 ELSE 3]

MCHere == <<1, 0>>
MCDest == {MCHere, <<0, 2>>, <<2, 0>>}

(* RouteReaches has no variables: TLC evaluates it once.                   *)
ASSUME MCRoutes == RouteReaches

Idling(part) ==
    /\ part # "dma" => UNCHANGED dmaVars
    /\ part # "noc" => UNCHANGED nocVars
    /\ part # "cache" => UNCHANGED cacheVars
    /\ part # "crossbar" => UNCHANGED barVars
    /\ part # "mapper" => UNCHANGED mapperVars
    /\ part # "driver" => UNCHANGED driverVars
    /\ part # "hal" => UNCHANGED halVars
    /\ part # "overlay" => UNCHANGED overlayVars
    /\ UNCHANGED scenario

MCInit ==
    /\ DmaInit /\ NocInit /\ CacheInit /\ BarInit /\ MapperInit /\ DriverInit
    /\ PynqInit
    /\ scenario \in {"dma", "noc", "cache", "crossbar", "mapper", "driver",
                    "hal", "overlay"}
    /\ scenario # "dma" => wiring = "both"
    /\ scenario # "cache" => query = CHOOSE w \in Vector : TRUE

MCNext ==
    \/ scenario = "dma" /\ DmaNext /\ Idling("dma")
    \/ scenario = "noc" /\ NocNext /\ Idling("noc")
    \/ scenario = "cache" /\ CacheNext /\ Idling("cache")
    \/ scenario = "crossbar" /\ BarNext /\ Idling("crossbar")
    \/ scenario = "mapper" /\ MapperNext /\ Idling("mapper")
    \/ scenario = "driver" /\ DriverNext /\ Idling("driver")
    \/ scenario = "hal" /\ HalNext /\ Idling("hal")
    \/ scenario = "overlay" /\ OverlayNext /\ Idling("overlay")

MCVars == <<dmaVars, nocVars, cacheVars, barVars, mapperVars, driverVars,
            pynqVars, scenario>>

MCSpec == MCInit /\ [][MCNext]_MCVars

(* The engine wired to the controller, and a clock that does not stop.     *)
MCWiredSpec ==
    /\ MCInit /\ scenario = "dma" /\ wiring = "both"
    /\ [][Wired /\ Idling("dma")]_MCVars
    /\ WF_MCVars(Wired /\ Idling("dma"))
=============================================================================
