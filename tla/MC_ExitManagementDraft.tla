----------------------- MODULE MC_ExitManagementDraft -----------------------
(* Small instances of ExitManagementDraft.                                     *)
EXTENDS ExitManagementDraft

Rule(id, c) == [id |-> id, component |-> c, phase |-> "runner",
                params |-> DefaultParams[c], role |-> "none", kind |-> "none"]
Managed == [Blank EXCEPT !.mode = "managed"]

\* Drafts the Composer itself starts from.
NewBlocks == {Unset, Blank, Managed}

\* A managed block with a rule in each layer: ids can clash across layers.
FullBlock == {[Managed EXCEPT
                 !.stop_management = <<Rule(<<"a">>, "break_even_stop")>>,
                 !.take_management = <<Rule(<<"b">>, "take_profile_switch")>>,
                 !.runtime_exits = <<NormalizeRuntimeExit(Rule(<<"c">>, "ema_cross_loss_exit"))>>]}

Stray == <<Rule(<<"a">>, "lock_profit_stop")>>
Odd(r, k) == [Rule(<<"b">>, "phase_runtime_exit") EXCEPT !.role = r, !.kind = k]

\* A rule that leaves parameters out: the loader has defaults for them.
Bare(id, c, p) == [Rule(id, c) EXCEPT !.params = p]

\* Blocks written by hand: the old shape, rules outside managed mode, a role or a kind
\* that does not fit, a condition of the old style, an alias only the loader knows,
\* parameters left out, with those the Composer requires and without.
HandWritten ==
    {[Blank EXCEPT !.legacy = TRUE],
     [Blank EXCEPT !.stop_management = Stray],
     [Unset EXCEPT !.stop_management = Stray],
     [Unset EXCEPT !.phase_rules = <<BlankPhaseRule(0)>>],
     [Managed EXCEPT !.phase_rules =
         <<[BlankPhaseRule(0) EXCEPT !.condition = [component |-> "type", params |-> <<>>]]>>],
     [Managed EXCEPT !.stop_management = Stray,
                     !.take_management =
         <<[Rule(<<"a">>, "take_profile_switch") EXCEPT !.params.action = "disable_fixed_tp"]>>],
     [Managed EXCEPT !.stop_management =
         <<Bare(<<"a">>, "lock_profit_stop", [lock_atr |-> "one", atr_period |-> "many"])>>],
     [Managed EXCEPT
        !.stop_management = <<Bare(<<"a">>, "break_even_stop", <<>>)>>,
        !.runtime_exits =
           <<[Bare(<<"b">>, "rsi_signal_exit", [above |-> "many"]) EXCEPT !.kind = "take_profit"]>>]}
    \cup {[Managed EXCEPT !.stop_management = Stray, !.runtime_exits = <<Odd(r, k)>>] :
             r \in {"none", "runtime_exit", "other"}, k \in {"none", "market_close", "take_profit"}}

PhaseIds == {<<>>, <<"phase_rule", 1>>}
LayerIds == {<<>>, <<"a">>, <<"break_even_stop", 1>>}

Author(files, ids, lists, rules, edits) ==
    [files |-> files, ids |-> ids, lists |-> lists, rules |-> rules, left |-> edits]
MCAuthors == {Author(NewBlocks, PhaseIds, {"phase_rules"}, 3, 4),
              Author(FullBlock, LayerIds, Layers, 2, 3),
              Author(HandWritten, LayerIds, Lists, 2, 2)}
=============================================================================
