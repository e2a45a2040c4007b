------------------------------ MODULE MCLuaPlan ------------------------------
(* Instances of LuaPlan for TLC. *)
EXTENDS LuaPlan

At(m, n) == [mode |-> m, pos |-> n]
Rng(f, t, e) == [from |-> f, to |-> t, exclusive |-> e]
Always == Rng(At("a", 0), At("a", 0), FALSE)
Never == Rng(At("x", 0), At("x", 0), FALSE)
Inst(k, out, in, pl) == [kind |-> k, range |-> [d \in Dirs |-> IF d = "out" THEN out ELSE in],
                         payloads |-> pl]

MCPlan == [first |-> <<Inst("choose", Rng(At("a", 0), At("n", 1), FALSE), Never, {"unknown", "empty"}),
                       Inst("plain", Rng(At("a", 0), At("n", 1), FALSE), Never, Payloads)>>,
           named |-> <<Inst("plain", Rng(At("n", 2), At("n", 3), TRUE), Always, {"tls"}),
                       Inst("plain", Rng(At("s", 0), At("s", 1), TRUE), Never, Payloads)>>,
           led |-> <<Inst("replay", Rng(At("n", 2), At("n", 2), FALSE), Never, Payloads),
                     Inst("plain", Always, Never, Payloads),
                     Inst("plain", Always, Never, {"tls"})>>]

MCAsks == {{}, {"out"}}
MCSeqs == [d \in Dirs |-> IF d = "out" THEN {0, 1} ELSE {0}]
MCAcks == [d \in Dirs |-> {0}]
MCSearch == [q \in {"a", "b", NoName} \X L7s |->
               CASE q[1] = "a" -> "named" [] q[1] = "b" -> "led"
                 [] OTHER -> IF q[2] = "tls" THEN NoProfile ELSE "first"]
=============================================================================
