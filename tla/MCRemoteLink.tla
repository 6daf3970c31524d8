---------------------------- MODULE MCRemoteLink ----------------------------
EXTENDS RemoteLink

Scope(out, in, breaks, giveUps, ends, sleeps, ops) ==
  [out |-> out, in |-> in, breaks |-> breaks, giveUps |-> giveUps,
   ends |-> ends, sleeps |-> sleeps, ops |-> ops]

\* Output over a break; a short process with a host that oversleeps; input over a
\* break; requests over a break and over a give-up, where a signalled process
\* may be overslept; everything at once on a connection that holds.
MCScopes == {Scope(4, 0, 1, 0, TRUE, FALSE, {}),
             Scope(0, 0, 1, 0, TRUE, TRUE, {}),
             Scope(0, 2, 1, 0, FALSE, FALSE, {"close"}),
             Scope(0, 0, 1, 0, FALSE, FALSE, {"release", "timeout"}),
             Scope(0, 0, 1, 1, FALSE, TRUE, {"kill"}),
             Scope(0, 0, 0, 1, TRUE, FALSE, {"kill", "release", "timeout", "shut"})}
=============================================================================
