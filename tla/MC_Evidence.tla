----------------------------- MODULE MC_Evidence -----------------------------
(* Small instances of Evidence.                                             *)
EXTENDS Evidence, TLC

CONSTANTS
    a, b,                     \* callers, and issuers of receipts
    x, y,                     \* task classes
    incumbent, candidate,     \* routed models
    Agents, Guide, Detail     \* rule files

TwoSources == <<"s", "t">>
Offer(name, boundary, observed, expires) ==
    [name |-> name, boundary |-> boundary, observed |-> observed, expires |-> expires]
SmallDispatched == {Offer("host", "HOST", 0, 2), Offer("cloud", "REMOTE", 1, 3)}

-----------------------------------------------------------------------------
(* Three rule files: Agents refers to Guide, which refers to Detail.  Two    *)
(* recorders over two changes of the worktree, a check over three, and both  *)
(* over a change that only git's normalisation of line ends sees.            *)

Rule(text, eol, refs) ==
    [present |-> TRUE, text |-> text, eol |-> eol, utf8 |-> TRUE, refs |-> refs,
     broken |-> FALSE, size |-> 1]
SmallVersions ==
    (Agents :> <<Rule("a", "LF", {Guide}), Rule("a2", "LF", {}),
                 [Rule("a3", "LF", {}) EXCEPT !.broken = TRUE]>>)
 @@ (Guide :> <<Rule("g", "LF", {Detail}), Rule("g", "CRLF", {Detail}), Rule("g3", "LF", {}),
                [Rule("g3", "LF", {}) EXCEPT !.present = FALSE]>>)
 @@ (Detail :> <<Rule("d", "LF", {}), Rule("d2", "LF", {})>>)
From(agents, guide) == (Agents :> agents) @@ (Guide :> guide) @@ (Detail :> 1)
SmallDirectories == << <<Agents>> >>
SmallCommand == [q \in {"first", "second", "checker"} |->
                    IF q = "checker" THEN "check" ELSE "record"]
SmallOptions == [q \in {"first", "second", "checker"} |-> [limit |-> 9, extra |-> {}]]
SmallScenarios ==
    {[crew |-> {"first", "second"}, start |-> From(2, 4), edits |-> 1],
     [crew |-> {"checker"}, start |-> From(1, 1), edits |-> 3],
     [crew |-> {"first", "checker"}, start |-> From(1, 3), edits |-> 1]}

-----------------------------------------------------------------------------
(* A week of three days of four hours, and a day of the next one.  The first *)
(* model has a tariff window anywhere in the week, the second one that spans *)
(* midnight or the whole week.                                               *)

Priced(id, success, price, schedules) ==
    [id |-> id, remote |-> id > 1, available |-> TRUE, disabled |-> FALSE,
     capable |-> TRUE, fits |-> TRUE, tiers |-> {"ECONOMICAL", "BALANCED", "FRONTIER"},
     assessed |-> TRUE, success |-> success, price |-> price, cached |-> 1,
     schedules |-> schedules, fixed |-> 0, pressure |-> 1]
Schedule(id, days, start, end, price) ==
    [id |-> id, priority |-> id, days |-> days, start |-> start, end |-> end,
     price |-> price]
SmallCatalogs ==
    {[expires |-> expires, models |-> {Priced(1, 2, 2, {early}), Priced(2, 3, 3, {late})}] :
        expires \in {5, 99},
        early \in {Schedule(1, days, start, end, 1) :
                     days \in {{1}, {0, 2}}, start \in {1, 3}, end \in 0..3},
        late \in {Schedule(2, {1}, 3, 1, 1), Schedule(2, {0, 1, 2}, 0, 0, 5)}}
Routes(most, switching) ==
    [tier |-> "BALANCED", remote |-> TRUE, failed |-> {}, floor |-> 0, most |-> most,
     failure |-> 2, switching |-> switching, fallbacks |-> 1, current |-> 0]
SmallRoutings == {Routes(4, 1), Routes(2, 0), Routes(9, 1)}

\* Two providers, one of them remote, and requests of two classes
TwoProviders == <<"p", "q">>
SmallBoundaryOf == [p |-> "HOST", q |-> "REMOTE"]
SmallAggregations ==
    {[boundaries |-> {"HOST", "REMOTE"}, class |-> "INTERNAL",
      remote |-> {"PUBLIC", "INTERNAL"}, limit |-> None],
     [boundaries |-> {"HOST", "REMOTE"}, class |-> "RESTRICTED",
      remote |-> {"PUBLIC"}, limit |-> 1]}
SmallQualities == {[known |-> TRUE, estimate |-> 1, cost |-> 2]}

-----------------------------------------------------------------------------
(* Catalogs of an agent, a cheaper one, and validators, some of them with    *)
(* evidence from the future, of unknown state, remote, or of unknown cost    *)

Capability(id, kind, functions, cost, expires) ==
    [id |-> id, kind |-> kind, functions |-> functions, class |-> "local",
     authorities |-> {}, cost |-> cost, state |-> "HEALTHY", checked |-> 0,
     expires |-> expires, deterministic |-> kind = "VALIDATOR"]
Agent == Capability(1, "WORKER", {"write"}, 2, 3)
Cheap == Capability(2, "WORKER", {"write"}, 1, 2)
Linter == Capability(3, "VALIDATOR", {"write", "check"}, 2, 4)
Late == [Capability(4, "VALIDATOR", {"check"}, 1, 1) EXCEPT !.deterministic = FALSE]
Variants(c) ==
    {c, [c EXCEPT !.checked = 9], [c EXCEPT !.state = "UNKNOWN"], [c EXCEPT !.class = "remote"]}
Order ==
    [needs |-> {"write"}, validation |-> {"check"}, independent |-> TRUE, human |-> FALSE,
     classes |-> {"local"}, granted |-> {"net"}, effects |-> {}, gated |-> FALSE,
     maxCost |-> 3, deadline |-> None]
SmallDescriptors ==
    {<<Agent, second, third>> :
        second \in Variants(Cheap) \cup {Late},
        third \in Variants(Linter) \cup {Late, [Agent EXCEPT !.cost = None]}}
SmallOrders ==
    {Order, [Order EXCEPT !.maxCost = 2],
     [Order EXCEPT !.validation = {}, !.human = TRUE],
     [Order EXCEPT !.independent = FALSE, !.deadline = 2],
     [Order EXCEPT !.effects = {"pay"}], [Order EXCEPT !.gated = TRUE]}
=============================================================================
