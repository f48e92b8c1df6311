---------------------------- MODULE AudioModules ----------------------------
(***************************************************************************)
(* Loading and removing the four audio modules that wire devices together: *)
(* tcl_acpi_audio ("audio"), tcl_lpi_provider ("lpi"), tcl_acpi_wcd        *)
(* ("wcd") and tcl_acpi_card ("card"). Their init and exit functions run   *)
(* concurrently, one resource per step; every lookup or registration may   *)
(* fail. No module uses a symbol of another, so they go in any order.      *)
(***************************************************************************)
EXTENDS Naturals, Sequences, Functions

CONSTANTS
    RegisterDevices,    \* the values of the parameter register_devices to try
    Loadable            \* the sets of modules to try together

ASSUME ModulesAssumption ==
    /\ RegisterDevices \in (SUBSET BOOLEAN) \ {{}}
    /\ Loadable \subseteq SUBSET {"audio", "lpi", "wcd", "card"}

VARIABLES
    chosen,  \* the modules that are loaded at all
    at,      \* at[m]: "out", "init", "live" or "exit"
    step,    \* step[m]: the next group of InitOrder(m) to take
    todo,    \* todo[m]: the lines of the unwinding m is in, or <<>>
    line,    \* line[m]: the next of them
    held,    \* held[m]: the non-NULL statics and registrations of m
    mode,    \* register_devices of the loaded tcl_acpi_audio
    adsp,    \* the remote processor runs, with its APR services and clocks
    codec    \* the aggregate's rx and tx references: "none", "valid", "dangling"

moduleVars == <<chosen, at, step, todo, line, held, mode, adsp, codec>>

Modules == {"audio", "lpi", "wcd", "card"}

(***************************************************************************)
(* Init functions: groups of lookups made together before the result is    *)
(* tested, in the order of the code.                                       *)
(***************************************************************************)
\* Mutant: the loop over the interrupts runs once too often.
AudioOrderOverrun ==
    <<{"adsp", "glnk"},
      {"pd", "cc", "apcs", "qmp", "apcs_node", "qmp_node"},
      {"gsi0"}, {"gsi1"}, {"nodes"}, {"proxy0"}, {"proxy1"}, {"xo"},
      {"xo_lookup"}, {"smp"}, {"virq0"}, {"virq1"}, {"virq2"}, {"virq3"}, {"virq4"},
      {"pas"}>>

AudioOrder ==
    <<{"adsp", "glnk"},
      {"pd", "cc", "apcs", "qmp", "apcs_node", "qmp_node"},
      {"gsi0"}, {"gsi1"}, {"nodes"}, {"proxy0"}, {"proxy1"}, {"xo"},
      {"xo_lookup"}, {"smp"}, {"virq0"}, {"virq1"}, {"virq2"}, {"virq3"}, {"pas"}>>

LpiOrder ==
    <<{"core_clk"}, {"audio_clk"}, {"core_lookup"}, {"audio_lookup"},
      {"lpi_node"}, {"lpi_pdev"}>>

\* The lookups of the wcd module are chained, and only the last two are tested.
WcdOrder ==
    <<{"glink"}, {"apr"}, {"q6afe"}, {"rx_master"}, {"tx_master"}, {"rx"}, {"tx"},
      {"codec"}>>

CardOrder == <<{"gpiod_table"}, {"route"}, {"driver"}, {"card_dev"}>>

InitOrder(m) ==
    CASE m = "audio" -> AudioOrder
      [] m = "lpi"   -> LpiOrder
      [] m = "wcd"   -> WcdOrder
      [] m = "card"  -> CardOrder

(***************************************************************************)
(* Unwinding.                                                              *)
(***************************************************************************)
\* cleanup(): one function for every failure and for the exit. Each line tests
\* its static, so it skips what was not taken. The two software node references
\* are in locals of init and are never put.
Cleanup ==
    <<"pas", "virq0", "virq1", "virq2", "virq3", "smp", "xo_lookup", "xo",
      "proxy1", "proxy0", "nodes", "gsi0", "gsi1", "qmp", "apcs", "cc", "pd",
      "glnk", "adsp">>

\* err_lookups and err_clks: lpi_clks_drop(), lpi_clks_put().
LpiClks == <<"audio_lookup", "core_lookup", "audio_clk", "core_clk">>

\* Mutant: the software node goes before the device that has it.
LpiExitNodeFirst ==
    <<"lpi_node", "lpi_pdev", "audio_lookup", "core_lookup", "audio_clk", "core_clk">>

LpiExit == <<"lpi_pdev", "lpi_node", "audio_lookup", "core_lookup", "audio_clk", "core_clk">>

\* Mutant: a failed device registration jumps to err_lookups at once.
LpiUnwindNodeKept(g) ==
    CASE g = 1 -> <<>>
      [] g = 2 -> <<"core_clk">>
      [] g = 3 -> <<"audio_clk", "core_clk">>
      [] OTHER -> LpiClks

\* What init gives back when the group g could not be taken.
LpiUnwind(g) ==
    CASE g = 1 -> <<>>
      [] g = 2 -> <<"core_clk">>
      [] g = 3 -> <<"audio_clk", "core_clk">>
      [] g \in {4, 5} -> LpiClks
      [] g = 6 -> <<"lpi_node", "audio_lookup", "core_lookup", "audio_clk", "core_clk">>

\* Mutant: the references of the two masters are forgotten.
WcdPutShort == <<"tx", "rx", "q6afe", "apr", "glink">>

\* tcl_acpi_wcd_put_lookup_nodes()
WcdPut == <<"tx", "rx", "tx_master", "rx_master", "q6afe", "apr", "glink">>

CardExit == <<"card_dev", "driver", "route", "gpiod_table">>

\* Mutant: each label also undoes the step that failed.
CardUnwindLate(g) ==
    CASE g = 2 -> <<"route", "gpiod_table">>
      [] g = 3 -> <<"driver", "route", "gpiod_table">>
      [] g = 4 -> CardExit

\* err_driver, err_route and err_lookup.
CardUnwind(g) ==
    CASE g = 2 -> <<"gpiod_table">>
      [] g = 3 -> <<"route", "gpiod_table">>
      [] g = 4 -> <<"driver", "route", "gpiod_table">>

Unwind(m, g) ==
    CASE m = "audio" -> Cleanup
      [] m = "lpi"   -> LpiUnwind(g)
      [] m = "wcd"   -> WcdPut
      [] m = "card"  -> CardUnwind(g)

Exit(m) ==
    CASE m = "audio" -> Cleanup
      [] m = "lpi"   -> LpiExit
      [] m = "wcd"   -> <<"codec">>
      [] m = "card"  -> CardExit

(***************************************************************************)
(* What one resource rests on: the arguments of the call that takes it.    *)
(***************************************************************************)
Virqs == {"virq0", "virq1", "virq2", "virq3"}

AudioNeeds(r) ==
    CASE r = "nodes" -> {"gsi0", "gsi1", "apcs_node", "qmp_node"}
      [] r \in {"proxy0", "proxy1"} -> {"pd"}
      [] r = "xo" -> {"cc"}
      [] r = "xo_lookup" -> {"xo"}
      [] r = "smp" -> {"nodes", "glnk", "apcs"}
      [] r \in Virqs -> {"smp", "nodes"}
      [] r = "pas" -> Virqs \cup {"smp", "nodes", "proxy0", "proxy1", "xo_lookup",
                                  "adsp", "qmp"}
      [] OTHER -> {}

OtherNeeds(r) ==
    CASE r = "core_lookup" -> {"core_clk"}
      [] r = "audio_lookup" -> {"audio_clk"}
      [] r = "lpi_pdev" -> {"lpi_node", "core_lookup", "audio_lookup"}
      [] r = "card_dev" -> {"driver", "route", "gpiod_table"}
      [] OTHER -> {}

\* What the groups before g take.
TakenBefore(m, g) == UNION {InitOrder(m)[i] : i \in 1 .. g - 1}

ResourcesOf(m) == TakenBefore(m, Len(InitOrder(m)) + 1)
NodeRefs == {"apcs_node", "qmp_node"}

-----------------------------------------------------------------------------
ModulesInit ==
    /\ chosen \in Loadable
    /\ at = [m \in Modules |-> "out"]
    /\ step = [m \in Modules |-> 1]
    /\ todo = [m \in Modules |-> <<>>] /\ line = [m \in Modules |-> 1]
    /\ held = [m \in Modules |-> {}]
    /\ mode \in RegisterDevices
    /\ adsp = FALSE
    /\ codec = "none"

\* insmod: statics are fresh. The references an earlier load never put stay
\* with the kernel, and are no longer this load's.
Load(m) ==
    /\ m \in chosen /\ at[m] = "out"
    /\ at' = [at EXCEPT ![m] = "init"]
    /\ held' = [held EXCEPT ![m] = {}]
    /\ IF m = "audio" THEN mode' \in RegisterDevices ELSE UNCHANGED mode
    /\ UNCHANGED <<chosen, step, todo, line, adsp, codec>>

\* return ret: with nothing to give back.
ReturnError(m) ==
    /\ at[m] = "init" /\ step[m] = 1 /\ held[m] = {}
    /\ m \in {"audio", "lpi"}
    /\ at' = [at EXCEPT ![m] = "out"]
    /\ UNCHANGED <<chosen, step, todo, line, held, mode, adsp, codec>>

\* goto fail, or the exit function.
Begin(m, list) ==
    /\ at' = [at EXCEPT ![m] = "exit"]
    /\ todo' = [todo EXCEPT ![m] = list] /\ line' = [line EXCEPT ![m] = 1]
    /\ step' = [step EXCEPT ![m] = 1]

\* The statics and flags that cleanup(), lpi_clks_drop(), lpi_clks_put() and
\* tcl_acpi_wcd_put_lookup_nodes() test; everything else is released untested.
Tested == (Range(Cleanup) \cup Range(LpiClks) \cup Range(WcdPut) \cup {"codec"})

\* The lines of an unwinding that still do something: a test skips what was not taken.
Due(m) == {i \in line[m] .. Len(todo[m]) : todo[m][i] \in Tested => todo[m][i] \in held[m]}

\* Which lookups of a group can succeed now.
Findable(m, r) ==
    CASE r \in {"core_clk", "audio_clk", "route"} -> adsp
      [] r = "glink" -> "nodes" \in held["audio"]
      [] r = "apr"   -> "nodes" \in held["audio"] /\ "glink" \in held["wcd"]
      [] r = "q6afe" -> "nodes" \in held["audio"] /\ "apr" \in held["wcd"]
      [] r \in {"rx_master", "tx_master"} ->
           "nodes" \in held["audio"] /\ "q6afe" \in held["wcd"]
      [] r = "rx" -> "nodes" \in held["audio"] /\ "rx_master" \in held["wcd"]
      [] r = "tx" -> "nodes" \in held["audio"] /\ "tx_master" \in held["wcd"]
      [] OTHER -> TRUE

\* A lookup of the wcd module: a NULL result is remembered and init goes on.
WcdLookup ==
    /\ at["wcd"] = "init" /\ step["wcd"] <= 7
    /\ \E r \in WcdOrder[step["wcd"]] :
         held' = [held EXCEPT !["wcd"] = IF Findable("wcd", r) THEN @ \cup {r} ELSE @]
    /\ step' = [step EXCEPT !["wcd"] = @ + 1]
    /\ UNCHANGED <<chosen, at, todo, line, mode, adsp, codec>>

\* The test of rx_node and tx_node, and the registration of the aggregate.
WcdRegister ==
    /\ at["wcd"] = "init" /\ step["wcd"] = 8
    /\ \/ /\ {"rx", "tx"} \subseteq held["wcd"]
          /\ held' = [held EXCEPT !["wcd"] = @ \cup {"codec"}]
          /\ codec' = IF "nodes" \in held["audio"] THEN "valid" ELSE "dangling"
          /\ step' = [step EXCEPT !["wcd"] = 9]
          /\ todo' = [todo EXCEPT !["wcd"] = WcdPut] /\ line' = [line EXCEPT !["wcd"] = 1]
          /\ UNCHANGED at
       \/ UNCHANGED <<held, codec>> /\ Begin("wcd", WcdPut)
    /\ UNCHANGED <<chosen, mode, adsp>>

\* Lookups and registrations of the other modules, with the tests that follow
\* them: the interrupts of the firmware after the first group, and whether the
\* smp2p device is bound. The gpiod table has no failure.
CheckedAfter == {"adsp", "smp"}

Group(m) == InitOrder(m)[step[m]]

\* What a group of lookups may find. An lpi module without its first clock has
\* nothing to unwind (ReturnError).
MayFind(m, found) ==
    /\ found \subseteq {r \in Group(m) : Findable(m, r)}
    /\ Group(m) = {"gpiod_table"} \/ (m = "lpi" /\ step[m] = 1) => found = Group(m)

TakeFound(m, found) ==
    /\ held' = [held EXCEPT ![m] = @ \cup found]
    /\ \/ /\ found = Group(m)
          /\ step' = [step EXCEPT ![m] = @ + 1]
          /\ UNCHANGED <<at, todo, line>>
       \/ /\ found # Group(m) \/ found \cap CheckedAfter # {}
          /\ Begin(m, Unwind(m, step[m]))

Take(m) ==
    /\ at[m] = "init" /\ m # "wcd" /\ step[m] <= Len(InitOrder(m))
    /\ \E found \in SUBSET Group(m) : MayFind(m, found) /\ TakeFound(m, found)
    /\ UNCHANGED <<chosen, mode, adsp, codec>>

\* return 0: everything is taken, or tcl_acpi_audio only validates.
Live(m) ==
    /\ at[m] = "init"
    /\ \/ step[m] > Len(InitOrder(m)) /\ Due(m) = {}
       \/ m = "audio" /\ ~mode /\ step[m] = 3
    /\ at' = [at EXCEPT ![m] = "live"]
    /\ UNCHANGED <<chosen, step, todo, line, held, mode, adsp, codec>>

\* rmmod
Rmmod(m) ==
    /\ at[m] = "live"
    /\ UNCHANGED <<chosen, held, mode, adsp, codec>>
    /\ Begin(m, Exit(m))

\* Mutant: unregistering the PAS device leaves the processor running.
ReleaseLineKeepsAdsp(m, i) ==
    /\ i \in Due(m) /\ \A j \in Due(m) : i <= j
    /\ held' = [held EXCEPT ![m] = @ \ {todo[m][i]}]
    /\ line' = [line EXCEPT ![m] = i + 1]
    /\ UNCHANGED <<chosen, at, step, todo, mode, adsp, codec>>

\* One line of an unwinding. Unregistering the PAS device stops the processor.
ReleaseLine(m, i) ==
    /\ i \in Due(m) /\ \A j \in Due(m) : i <= j
    /\ held' = [held EXCEPT ![m] = @ \ {todo[m][i]}]
    /\ adsp' = (adsp /\ todo[m][i] # "pas")
    /\ codec' = CASE todo[m][i] = "codec" -> "none"
                  [] todo[m][i] = "nodes" /\ "nodes" \in held[m] /\ codec = "valid" -> "dangling"
                  [] OTHER -> codec
    /\ line' = [line EXCEPT ![m] = i + 1]
    /\ UNCHANGED <<chosen, at, step, todo, mode>>

Release(m) == \E i \in 1 .. Len(todo[m]) : ReleaseLine(m, i)

Unloaded(m) ==
    /\ at[m] = "exit" /\ Due(m) = {}
    /\ at' = [at EXCEPT ![m] = "out"]
    /\ todo' = [todo EXCEPT ![m] = <<>>] /\ line' = [line EXCEPT ![m] = 1]
    /\ UNCHANGED <<chosen, step, held, mode, adsp, codec>>

\* The remote processor is started and stopped through sysfs once PAS is there.
AdspStarts ==
    /\ "pas" \in held["audio"] /\ at["audio"] = "live" /\ ~adsp
    /\ adsp' = TRUE
    /\ UNCHANGED <<chosen, at, step, todo, line, held, mode, codec>>

AdspStops ==
    /\ adsp /\ adsp' = FALSE
    /\ UNCHANGED <<chosen, at, step, todo, line, held, mode, codec>>

InitOrExit(m) == Take(m) \/ Live(m) \/ Release(m) \/ Unloaded(m)

ModulesNext ==
    \/ \E m \in Modules : Load(m) \/ ReturnError(m) \/ Rmmod(m) \/ InitOrExit(m)
    \/ WcdLookup \/ WcdRegister
    \/ AdspStarts \/ AdspStops

ModulesSpec == ModulesInit /\ [][ModulesNext]_moduleVars

-----------------------------------------------------------------------------
\* The sequences m may unwind by.
UnwindLists(m) == {Exit(m)} \cup {Unwind(m, g) : g \in 2 .. Len(InitOrder(m))}

ModulesTypeOK ==
    /\ at \in [Modules -> {"out", "init", "live", "exit"}]
    /\ step \in [Modules -> 1 .. 16] /\ line \in [Modules -> 1 .. 20]
    /\ todo \in [Modules -> {<<>>} \cup UNION {UnwindLists(m) : m \in Modules}]
    /\ held \in [Modules -> SUBSET (UNION {ResourcesOf(m) : m \in Modules})]
    /\ mode \in BOOLEAN /\ adsp \in BOOLEAN
    /\ codec \in {"none", "valid", "dangling"}

NeedsOf(m) == [r \in ResourcesOf(m) |->
                 IF m = "audio" THEN AudioNeeds(r) ELSE OtherNeeds(r)]

AudioLife == INSTANCE Lifecycle WITH Resources <- ResourcesOf("audio"),
    Needs <- NeedsOf("audio"), Kept <- NodeRefs, phase <- at["audio"], held <- held["audio"]

LpiLife == INSTANCE Lifecycle WITH Resources <- ResourcesOf("lpi"),
    Needs <- NeedsOf("lpi"), Kept <- NodeRefs, phase <- at["lpi"], held <- held["lpi"]

WcdLife == INSTANCE Lifecycle WITH Resources <- ResourcesOf("wcd"),
    Needs <- NeedsOf("wcd"), Kept <- NodeRefs, phase <- at["wcd"], held <- held["wcd"]

CardLife == INSTANCE Lifecycle WITH Resources <- ResourcesOf("card"),
    Needs <- NeedsOf("card"), Kept <- NodeRefs, phase <- at["card"], held <- held["card"]

\* Each module implements Lifecycle: whatever fails and however the modules
\* interleave, nothing is taken before what it rests on, nothing is pulled from
\* under what rests on it, nothing is released twice, and a module that is gone
\* has left only the two node references its init takes and never puts.
ImplementsLifecycle ==
    AudioLife!LifeSpec /\ LpiLife!LifeSpec /\ WcdLife!LifeSpec /\ CardLife!LifeSpec

\* "The exit path unregisters PAS first, stopping ADSP before its fwnodes go":
\* the processor never runs without the nodes, interrupts and domains it uses.
AdspOnItsNodes ==
    adsp => AudioNeeds("pas") \cup {"pas"} \subseteq held["audio"]

\* Once the aggregate is registered, or after any failure, the wcd module keeps
\* none of its seven lookup references.
LookupsReturned ==
    /\ at["wcd"] = "live" => held["wcd"] = {"codec"}
    /\ at["wcd"] = "out" => held["wcd"] = {}

\* "The referenced RX/TX nodes are owned by tcl_acpi_audio; properties only need
\* their stable software_node identities": the nodes the registered aggregate
\* refers to stay registered.
CodecNodesStable == codec # "dangling"

\* What is released without a test was taken: the labels and exit functions undo no
\* step that was not made.
UntestedWasTaken ==
    \A m \in Modules :
        \A i \in line[m] .. Len(todo[m]) : todo[m][i] \in Tested \cup held[m]

\* ------------------------------------------------ the inductive invariant
\* What the lines that are left will release.
Left(m) == {todo[m][i] : i \in line[m] .. Len(todo[m])}

\* A module that is not loaded holds at most the two references, ...
OutInStep(m) ==
    at[m] = "out" => /\ held[m] \subseteq NodeRefs /\ (m # "audio" => held[m] = {})
                     /\ step[m] = 1 /\ todo[m] = <<>>

\* ... one in its init exactly what the groups before this one take, ...
InitInStep(m) ==
    at[m] = "init" => /\ step[m] \in 1 .. Len(InitOrder(m)) + 1
                      /\ held[m] = TakenBefore(m, step[m]) /\ todo[m] = <<>>

\* ... one that is loaded everything, unless it only validates, ...
LiveInStep(m) ==
    at[m] = "live" => /\ held[m] = ResourcesOf(m) \/ (m = "audio" /\ held[m] = TakenBefore(m, 3))
                      /\ todo[m] = <<>>

\* ... and one that unwinds only what the lines that are left will release.
ExitInStep(m) ==
    at[m] = "exit" => /\ todo[m] \in UnwindLists(m) /\ held[m] \subseteq Left(m) \cup NodeRefs
                      /\ step[m] = 1 /\ (m # "audio" => held[m] \cap NodeRefs = {})

\* The lookups of the wcd module may fail one by one, and are returned while it is
\* still in its init.
WcdInStep ==
    /\ at["wcd"] = "init" /\ step["wcd"] <= 8 =>
         held["wcd"] \subseteq TakenBefore("wcd", step["wcd"]) /\ todo["wcd"] = <<>>
    /\ at["wcd"] = "init" /\ step["wcd"] > 8 =>
         /\ step["wcd"] = 9 /\ todo["wcd"] = WcdPut
         /\ "codec" \in held["wcd"] /\ held["wcd"] \subseteq Left("wcd") \cup {"codec"}
    /\ at["wcd"] = "live" => held["wcd"] = {"codec"} /\ todo["wcd"] = WcdPut

\* The processor runs only under a module that holds everything and has not begun
\* to release it.
AdspInStep ==
    adsp => /\ held["audio"] = ResourcesOf("audio")
            /\ at["audio"] = "live" \/ (at["audio"] = "exit" /\ line["audio"] = 1)

ModulesInv ==
    /\ ModulesTypeOK /\ AdspInStep /\ WcdInStep /\ UntestedWasTaken
    /\ \A m \in Modules : OutInStep(m) /\ ExitInStep(m)
    /\ \A m \in Modules \ {"wcd"} : InitInStep(m) /\ LiveInStep(m)

\* The four modules as a whole: the processor runs on its nodes, and the aggregate
\* keeps no lookup reference.
ModulesSafe ==
    /\ ModulesInv /\ AdspOnItsNodes /\ LookupsReturned /\ UntestedWasTaken
=============================================================================
