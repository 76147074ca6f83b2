------------------------------ MODULE Instance ------------------------------
(***************************************************************************)
(* internal/instance: which instance of its project a directory is.        *)
(***************************************************************************)
EXTENDS Allocation

\* GenerateCode draws random codes until one is not used: any unused name.
GenerateCode(used) == Instances \ (used \cup {Main})

\* Mutant of Resolve: every directory not seen before is main.
ResolveMain(reg, project, dir) ==
  LET here == FindByDir(reg, dir)
  IN IF here # {} THEN {InstanceOf(k) : k \in here} ELSE {Main}

\* Resolve, as the set of the names it may return: the instance part of the
\* entry found for the directory, whatever project that entry belongs to; main
\* for the first checkout of the project; a fresh code for a further one.
Resolve(reg, project, dir) ==
  LET here     == FindByDir(reg, dir)
      existing == FindByProject(reg, project)
  IN IF here # {} THEN {InstanceOf(k) : k \in here}
     ELSE IF existing = {} THEN {Main}
     ELSE GenerateCode({InstanceOf(k) : k \in existing})
=============================================================================
