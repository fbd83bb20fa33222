-------------------------------- MODULE MCVfs --------------------------------
EXTENDS Vfs, TLC

MCSymmetry == Permutations(Fds)

\* No action reads what the last call returned, or where reading stopped in a
\* file of the kernel's table that no descriptor refers to any more.
InUse == {initfds[d] : d \in DOMAIN initfds}
MCView ==
  <<user, doing, halted, ramVars, initfds, diskVars, debugVars,
    [i \in DOMAIN open_files |-> IF i \in InUse THEN open_files[i] ELSE <<>>]>>

\* Files that end with a sector, span sectors, share one and are empty; of odd
\* and even lengths.
F(name, body) == [name |-> name, body |-> body]
MCImages ==
  { <<>>,
    << F(<<1>>, <<>>), F(<<2>>, <<3, 1, 2, 1, 3, 2>>) >>,
    << F(<<1, 2>>, <<1, 2, 3, 2, 1>>), F(<<1>>, <<2, 2>>), F(<<2, 1>>, <<0>>) >> }
MCArchive == << F(<<3>>, <<2, 3, 1>>), F(<<3, 1>>, <<1, 2>>) >>
MCFilenames == {<<1>>, <<2>>, <<1, 2>>, <<3>>, <<3, 1>>}
MCOffsets == {-2, -1, 0, 1, 4}
MCTexts == {<<1, 255>>, <<255, 1>>, <<>>}
=============================================================================
