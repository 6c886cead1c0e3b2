------------------------ MODULE MCPriorityInterrupts -------------------------
(***************************************************************************)
(* PriorityInterrupts for TLC.                                             *)
(***************************************************************************)
EXTENDS PriorityInterrupts

\* Set up the system, enable and disable a level, turn the system off and on,
\* and ask for a level with a jump.
Commands ==
  {[bits |-> {"clear", "on", "add"}, levels |-> Levels],
   [bits |-> {"clear"}, levels |-> {}],
   [bits |-> {"off"}, levels |-> {}], [bits |-> {"on"}, levels |-> {}]}
  \cup [bits : {{"add"}, {"drop"}}, levels : {{l} : l \in Levels}]
  \cup [bits : {{"request"}}, levels : SUBSET (Levels \ BlockLevels) \ {{}}]

\* Set up the clock, serve the clock, serve the flag, change the level, stop
\* the clock, reset.
ClockCommands ==
  {{"clear flag", "clear clock", "clock on"}, {"clear clock"}, {"clear flag"}, {},
   {"clock off"}, {"reset"}}
=============================================================================
