-------------------------------- MODULE MCBoot --------------------------------
EXTENDS MCPreload, Boot

MCBootMods == {ma, kernel}
MCDelays == {-1, 1}
MCBootPaths == {<<d1>>}
\* md is a file that is there and no kernel, mz is not there.
MCBootfiles == {<<kernel>>, <<md, kernel>>, <<kernel, mz>>, <<md, Empty, kernel>>}
MCOneFile == {<<md, kernel>>}
=============================================================================
