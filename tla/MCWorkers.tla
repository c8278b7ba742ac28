------------------------------ MODULE MCWorkers ------------------------------
(* Small instances of Workers for TLC: plans and packages that meet every rule *)
(* of the policy, the gates and the identifiers once.                          *)
EXTENDS Workers

Id(name) == [tags |-> <<>>, name |-> name, final |-> 0]
Prefixed(id) == [id EXCEPT !.tags = <<1>>]

Size(h, m, o, l) == [hidden |-> h, knots |-> 2, memory |-> m, orders |-> o,
                     kernel |-> 1, layers |-> l]
Num(n) == [form |-> "int", n |-> n]
Text(n) == [form |-> "text", n |-> n]
Absent == [form |-> "absent", n |-> 0]

Prior(k) == [kind |-> "prior", id |-> k]
OldName(k) == [kind |-> "historical-prior", id |-> k]
MCContext == {Prior("p"), [kind |-> "knowledge", id |-> "k"]}

Cd(id, src, model, size, epochs) ==
  [id |-> id, src |-> src, model |-> model, size |-> size, epochs |-> epochs,
   budget |-> [params |-> 30, epochs |-> 9], refs |-> {OldName("p")}, cite |-> OldName("p")]
Gen(id, epochs) == Cd(id, "generated", "net", Size(1, 1, 1, 1), epochs)
Reg(id, model, size, epochs) == Cd(id, "registered", model, size, epochs)
Plan(list) == [complete |-> TRUE, cites |-> {OldName("p")}, list |-> list]

a == Id("a")
MCPlans ==
  { Plan(<<Reg(Id("long"), "tiny_mlp", Size(5, 1, 1, 1), Num(2)),
           Gen(Prefixed(Id("long")), Text(9))>>),
    Plan(<<Gen(a, Absent), Gen([a EXCEPT !.final = 1], Num(3))>>),
    \* refused by the policy, breaking it, and refused by the gate
    Plan(<<Gen(a, Num(9)), Gen(Id("b"), Num(1))>>),
    Plan(<<Gen(a, Num(3)), Gen(Id("b"), Num(3))>>),
    Plan(<<Reg(a, "linear", Size(1, 1, 1, 1), Text(2)), Gen(Id("b"), Num(1))>>),
    Plan(<<Gen(a, Num(1)), Reg(Id("b"), "complex_cnn", Size(1, 1, 1, 0), Num(1))>>),
    Plan(<<Gen(a, Num(1)), Gen(a, Num(1))>>) }

MCAnchor == {[model |-> "tiny_mlp", size |-> Size(5, 1, 1, 1), epochs |-> Num(6),
              budget |-> [params |-> 40, epochs |-> 6]]}

Path(f) == <<"models", "candidates", "net", f>>
Elsewhere(f) == <<"models", "candidates", "other", f>>
Plugin == [kind |-> "py", class |-> "Net", scaffold |-> TRUE, methods |-> {"build_model"},
           dirty |-> FALSE]
Helper(dirty) == [kind |-> "py", class |-> "", scaffold |-> FALSE, methods |-> {},
                  dirty |-> dirty]
Manifest == [kind |-> "json", class |-> "", scaffold |-> FALSE, methods |-> {}, dirty |-> FALSE]
Reply(files, manifest) ==
  [json |-> TRUE, files |-> files, manifest |-> manifest,
   entry |-> [path |-> Path("plugin.py"), class |-> "Net"]]
Basic == (Path("plugin.py") :> Plugin) @@ (Path("manifest.json") :> Manifest)
MCPackages ==
  { Reply(Basic, Path("manifest.json")),
    Reply(Basic @@ (Path("helper.py") :> Helper(TRUE)), Path("manifest.json")),
    Reply(Basic @@ (Path("helper.py") :> Helper(FALSE))
            @@ (<<"models", "candidates", "net", ".env.local", "x.py">> :> Helper(FALSE)),
          Path("manifest.json")),
    Reply(Basic @@ (<<"src", "x.py">> :> Helper(FALSE)), Path("manifest.json")),
    [Reply((Elsewhere("plugin.py") :> Plugin) @@ (Elsewhere("manifest.json") :> Manifest),
           Elsewhere("manifest.json")) EXCEPT !.entry.path = <<>>, !.entry.class = "Net"] }
=============================================================================
