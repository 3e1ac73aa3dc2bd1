------------------------------ MODULE MCLoader ------------------------------
(***************************************************************************)
(* Small instances of Loader: documents whose sections vary one or two at  *)
(* a time, so that every error path is met before and after every section. *)
(***************************************************************************)
EXTENDS Loader

Expression(n, f) == [name |-> n, file |-> f]
Info(f, in, out) == [file |-> f, fadeIn |-> in, fadeOut |-> out]
Plain(f) == Info(f, NoTime, NoTime)
GroupOf(n, list) == [name |-> n, list |-> list]

Whole ==
    [json |-> "ok", moc |-> "ok", texturesField |-> "array",
     textures |-> <<"ok", "ok">>,
     expressions |-> <<Expression("smile", "ok"), Expression("default 1", "ok")>>,
     motions |-> <<GroupOf(<<"idle">>, <<Plain("ok"), Info("ok", 2, 3)>>),
                   GroupOf(<<"tap">>, <<Info("ok", 0, 5)>>)>>,
     physics |-> "ok", pose |-> "ok", groups |-> <<{"left", "right"}>>]

BrokenFiles == {"bad", "missing", "malformed"}

Heads ==
    {[Whole EXCEPT !.json = j] : j \in {"missing", "malformed"}}
    \cup {[Whole EXCEPT !.moc = m] : m \in {"bad", "missing"}}
    \cup {[Whole EXCEPT !.texturesField = f, !.textures = <<>>] : f \in {"absent", "other"}}

Textured ==
    {[Whole EXCEPT !.textures = t] :
        t \in {<<>>, <<"ok">>, <<"ok", "ok", "ok">>}
              \cup {<<"ok", p>> : p \in {"bad", "missing", "short", "not a string"}}}

\* Two defaults, two of one name, and a broken file after a good one
Expressive ==
    {[Whole EXCEPT !.expressions = e] :
        e \in {<<>>,
               <<Expression("default 1", "ok"), Expression("smile", "ok"),
                 Expression("default 2", "ok")>>,
               <<Expression("smile", "ok"), Expression("smile", "ok")>>,
               <<Expression("default 1", "ok"), Expression("default 1", "ok")>>}
              \cup {<<Expression("default 1", "ok"), Expression("smile", f)>> : f \in BrokenFiles}}

\* An empty group, two idle groups, the groups "idle:1" and "idle:2" beside the
\* motions of the group "idle",
\* and a broken file after a good one
Moving ==
    {[Whole EXCEPT !.motions = m] :
        m \in {<<>>,
               <<GroupOf(<<"idle">>, <<>>), GroupOf(<<"tap">>, <<Plain("ok")>>)>>,
               <<GroupOf(<<"idle">>, <<Plain("ok")>>),
                 GroupOf(<<"idle", 2>>, <<Info("ok", 1, 1)>>)>>,
               <<GroupOf(<<"idle">>, <<Plain("ok"), Plain("ok")>>),
                 GroupOf(<<"idle", 2>>, <<Info("ok", 4, 4)>>)>>,
               <<GroupOf(<<"idle">>, <<Plain("ok"), Plain("ok")>>),
                 GroupOf(<<"idle", 1>>, <<Info("ok", 4, 4)>>)>>,
               <<GroupOf(<<"idle">>, <<Plain("ok"), Plain("ok")>>),
                 GroupOf(<<"idle", 1>>, <<Plain("ok"), Plain("ok")>>)>>}
              \cup {<<GroupOf(<<"idle">>, <<Plain("ok"), Plain(f)>>)>> : f \in BrokenFiles}}

Rest ==
    {[Whole EXCEPT !.physics = f] : f \in OptionalFiles}
    \cup {[Whole EXCEPT !.pose = f] : f \in OptionalFiles}
    \cup {[Whole EXCEPT !.groups = g] :
            g \in {<<>>, <<{}>>, <<{"left"}, {}>>, <<{"left"}, {"right"}>>}}

DocumentsConsidered == Heads \cup Textured \cup Expressive \cup Moving \cup Rest

=============================================================================
