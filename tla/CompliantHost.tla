---------------------------- MODULE CompliantHost ----------------------------
(***************************************************************************)
(* The gateway with the host it is written for: every session calls the    *)
(* check that the last directive asks for, with the project_root, code that *)
(* parses and a draft that mentions what the contract wants, until it is   *)
(* told "done". MCP cannot force a host to do so; this module says what    *)
(* the directive is worth to one that does.                                *)
(***************************************************************************)
EXTENDS EvidenceGate

\* The call that required_tool and required_args of the directive describe.
Follow(s) ==
  \/ directive[s] = "verify_changed_code" /\ CheckSyntax(s, TRUE, TRUE)
  \/ directive[s] = "verify_repository_scope" /\ CheckDiff(s, TRUE, "contract")
  \/ directive[s] = "run_tests" /\ CheckTests(s, TRUE)
  \/ directive[s] = "verify_outcomes" /\ CheckOutcomes(s, TRUE, {})

HostNext == Edit \/ Commit \/ \E s \in Sessions : Follow(s) \/ Handle(s)

\* A server finishes the call it serves and a compliant host makes the next
\* one; nothing obliges the editor to act.
HostFairness == \A s \in Sessions : WF_vars(Follow(s)) /\ WF_vars(Handle(s))

HostSpec == Init /\ [][HostNext]_vars /\ HostFairness

\* The worktree is one that the contract can accept.
Acceptable == repo \in Green /\ WithinScope(WorktreeDigest)

\* A compliant host is never sent round in circles: once the worktree settles
\* on an acceptable tree, whatever was verified, edited and rejected before,
\* the host is told "done" (docs/scientific_delivery_protocol.md: "a compliant
\* real-gateway trajectory reaches checkpoint=done").
CompliantHostFinishes ==
  <>[]Acceptable => \A s \in Sessions : <>(directive[s] = "done")
=============================================================================
