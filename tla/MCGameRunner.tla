---------------------------- MODULE MCGameRunner ----------------------------
(* Robot 0 runs action::clear, another robot only gets default commands.   *)
EXTENDS GameRunner

\* action::clear::execute: turn towards the ball, walk, or nothing when the
\* robot is not visible.
Commands(motions) ==
    {DefaultCommand} \cup {[motion |-> m, setpoint |-> Zero] : m \in motions}

MCActionCommands == Commands({"turn_left", "turn_right", "walk_forward"})

\* Without turning left, which mirrors turning right but ends at once
MCFewCommands == Commands({"turn_right", "walk_forward"})
=============================================================================
