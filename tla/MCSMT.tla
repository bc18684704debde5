------------------------------- MODULE MCSMT -------------------------------
EXTENDS SMT

\* Two leaves under the root.
FlatKeys == {<<0>>, <<9>>}

\* Two leaves under one node; nibbles at both ends.
TwoKeys == {<<0, 0>>, <<0, 15>>}

\* Two leaves under different nodes of a common subtree, three levels deep.
DeepKeys == {<<0, 0, 0>>, <<0, 9, 4>>}

\* The state without the cache. No action lets the cache act on another
\* variable, so states that differ in it alone behave alike for properties
\* that do not speak of it.
WithoutCache ==
    <<version, recentVersion, root, lastSaveRoot, journal, db, dbChild,
      dbVersion, dbRecent, asked, rollbackFailed, interrupted>>
============================================================================
