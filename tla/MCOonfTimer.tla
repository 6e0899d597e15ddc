---------------------------- MODULE MCOonfTimer -----------------------------
(* Two timers of a periodic class, one with full jitter, and a one-shot    *)
(* timer.                                                                  *)
EXTENDS OonfTimer, TLC

MCClass == "p1" :> "periodic" @@ "p2" :> "periodic" @@ "s" :> "single"
MCJitter == "p1" :> 0 @@ "p2" :> 100 @@ "s" :> 0
MCStarts == {<<0, 0>>, <<3, 1>>}
=============================================================================
