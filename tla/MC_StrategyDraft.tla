-------------------------- MODULE MC_StrategyDraft --------------------------
(* Small instances of StrategyDraft.                                           *)
EXTENDS StrategyDraft

Blank == createDefaultInstance(<<>>).s
Htf == <<"htf", 1>>
GateUse == [ref |-> Htf, policy |-> Gate, regimes |-> TRUE]
Exit(id) == applyComponentDefaults(<<id>>, "rsi_signal_exit")

\* A setup and the exit policy consume the same context; or the setup alone.
Profiled == [Blank EXCEPT !.contexts = {Htf}, !.lists.setups[1].use = GateUse,
                          !.lists.aligned = <<Exit("aligned")>>,
                          !.exitUse = [ref |-> Htf, policy |-> ExitPolicy, regimes |-> FALSE]]
Gated == [Blank EXCEPT !.contexts = {Htf}, !.lists.setups[1].use = GateUse]
ContextFiles == {Profiled, Gated}

Bounce == [id |-> <<"setup">>, comp |-> "ema_bounce_counter_setup", flat |-> "none",
           nested |-> "typed", use |-> NoUse]
\* An old config with a singleton setup, lists with parameters in either place, and one
\* with `params` that nobody reads.
ShapeFiles == {[Blank EXCEPT !.legacy = Bounce, !.lists.setups = <<>>],
               [Blank EXCEPT !.lists.setups = <<[Bounce EXCEPT !.flat = "default"]>>],
               [Blank EXCEPT !.lists.setups = <<[Bounce EXCEPT !.flat = "typed", !.nested = "none"]>>],
               [Blank EXCEPT !.lists.setups[1].nested = "typed"]}

Author(files, refs, ids, stamps, lists, bounds) ==
    [files |-> files, refs |-> refs, ids |-> ids, stamps |-> stamps, lists |-> lists,
     contexts |-> bounds[1], slots |-> bounds[2], instances |-> bounds[3], left |-> bounds[4]]

\* One edits contexts and their consumers, one the ids of exits in two lists, one the
\* parameters of slots of either shape, and one adds, renames and removes instances.
MCAuthors ==
    {Author(ContextFiles, {<<>>, Htf, <<"slow">>}, {}, {1}, {"setups", "blockers", "aligned"},
            <<2, 1, 1, 5>>),
     Author(ContextFiles, {}, {<<>>, <<"rsi">>}, {1, 2}, {"always_on", "neutral"}, <<0, 2, 1, 4>>),
     Author(ShapeFiles, {}, {}, {1}, {"setups", "trigger"}, <<0, 2, 1, 4>>),
     Author({}, {}, {<<"instance", 1>>, <<"instance", 3>>}, {}, {}, <<0, 1, 4, 7>>)}
=============================================================================
