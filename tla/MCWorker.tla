------------------------------ MODULE MCWorker ------------------------------
EXTENDS Worker

\* The bitmap is clear, or the first beat will clear it.
CleanMemory == {<<{}, 0>>} \union ((SUBSET Subs) \X {1})

\* Only a clear bitmap, as in fresh pages.
FreshMemory == {<<{}, 0>>}

\* The stress test of test.c with n items, and the one of test3.c.
Test(n)  == [tasks |-> n, sleeps |-> {"test"}]
Test3(n) == [tasks |-> n, sleeps |-> {"nap", "drain"}]

BothTests  == {Test(2), Test3(4)}
TestAlone  == {Test(3)}
=============================================================================
