---------------------------- MODULE MCAgingTest ----------------------------
\* Small instances of AgingTest.
EXTENDS AgingTest, TLC

CONSTANTS l1, l2
TwoLoops == {l1, l2}
OneLoop == {l1}

NoPast == {0}
\* ... or the count a finished test of two has left.
LeftTwo == {0, 2}
OnlyThree == {3}
OnlyTwo == {2}
OffOrLinked == {"off", "linked"}
OnlyLinked == {"linked"}
BothApis == {"old", "new"}
OnlyNew == {"new"}

Spend(test, switch, reset, resume, outside) ==
    "test" :> test @@ "switch" :> switch @@ "reset" :> reset @@ "resume" :> resume
    @@ "outside" :> outside

\* Everything once.
Anything == Spend(1, 1, 1, 1, 1)
\* Start, reset and start again, and a network that comes or goes.
Restart == Spend(2, 0, 1, 0, 1)
\* One test, and a network that comes or goes.
OneTestAndNetwork == Spend(1, 0, 0, 0, 1)
=============================================================================
