----------------------------- MODULE MCTreeSize -----------------------------
EXTENDS TreeSize

\* Two leaves under different children of the root.
ForkedKeys == {<<0, 0>>, <<9, 4>>}

\* The state without the leaf cache, which no size depends on.
WithoutCache ==
    <<version, recentVersion, root, lastSaveRoot, journal, db, dbChild,
      dbVersion, dbRecent, asked, rollbackFailed, interrupted, sizeVars>>
============================================================================
