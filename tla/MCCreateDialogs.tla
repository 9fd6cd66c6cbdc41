-------------------------- MODULE MCCreateDialogs --------------------------
EXTENDS CreateDialogs, TLC

\* Names are numbers; 1 is SKILL.md.  A bundle without a body of SKILL.md, files
\* at two levels, and a folder and a file of the same name in two places.
SkillMdPath == <<1>>
SmallBundles ==
    {<<>>, <<<<1>>>>, <<<<2, 1>>>>, <<<<1>>, <<2, 1>>, <<2, 3>>>>,
     <<<<1>>, <<3>>, <<2, 3, 1>>>>}

Permuted == Permutations(Target)
=============================================================================
