------------------------------ MODULE MCEnvFiles -----------------------------
(* Instances of EnvFiles for TLC: two services and one computed value, with  *)
(* the variants of a config that its rules tell apart.                       *)
EXTENDS EnvFiles

Svc(env_var, host, fs) ==
  [env_var |-> env_var, host |-> host, aliases |-> None, subdomains |-> FALSE, files |-> fs]
Part(op, ref, body) == [op |-> op, var |-> ref, body |-> body]
Sub(ref) == Part("sub", ref, <<>>)
Computed(value, fs) == [value |-> value, files |-> fs]

\* "${web.url}" for .env; "${instance:+${instance}}${db.port:-0}${db.port.extra}" for the
\* other file: no expression matches the last reference, which stays unchecked.
UrlTemplate   == <<Sub(<<"web", "url">>)>>
OtherTemplate == <<Part("alt", <<"instance">>, <<Sub(<<"instance">>)>>),
                   Part("default", <<"db", "port">>, <<Part("text", "0", <<>>)>>),
                   Sub(<<"db", "port", "extra">>)>>
Url == Computed(UrlTemplate, (".env" :> <<>>) @@ ("b.env" :> OtherTemplate))

Web == Svc("PORT", "app.test", {})
Db  == Svc("DB", None, {".env", "b.env"})
Raw(services, computed) ==
  [name |-> "app", services |-> services, computed |-> computed, open |-> None]

Base       == Raw(("web" :> Web) @@ ("db" :> Db), "URL" :> Url)
WebOnly    == Raw("web" :> Web, <<>>)
SameVar    == Raw(("web" :> Web) @@ ("db" :> Svc("PORT", None, {})), <<>>)
ApartVar   == Raw(("web" :> Web) @@ ("db" :> Svc("PORT", None, {"b.env"})), <<>>)
NameClash  == Raw("web" :> Web, "PORT" :> Url)
PortTemplate == <<Sub(<<"db", "port">>)>>
UnknownRef == Raw("web" :> Web, "URL" :> Computed(PortTemplate, ".env" :> <<>>))
AliasTemplate == <<Sub(<<"web", "alias_url", "api">>)>>
Aliased    == Raw("web" :> [Web EXCEPT !.aliases = "api" :> "api.app.test"],
                  "URL" :> Computed(AliasTemplate, ".env" :> <<>>))
MCTemplates == {<<>>, UrlTemplate, OtherTemplate, PortTemplate, AliasTemplate}
                 \cup ToSet([i \in 1..2 |-> OtherTemplate[i].body])

\* One file, spelled in two ways by services that write the same variable, or two.
TwoNames == Raw(("web" :> Web) @@ ("db" :> Svc("DB", None, {"./.env"})), <<>>)
OneName  == Raw(("web" :> Web) @@ ("db" :> Svc("PORT", None, {"./.env"})), <<>>)

MCRawConfigs == {Base, WebOnly, SameVar, ApartVar, NameClash, UnknownRef, Aliased, TwoNames, OneName}

NoOverride == Svc(None, None, {})
Local(services) == [services |-> services, open |-> None]
MCLocals == {None, Local("db" :> [NoOverride EXCEPT !.files = {"b.env"}]),
             Local("web" :> [NoOverride EXCEPT !.env_var = "DB"])}

MCPaths == <<"./.env", ".env", "b.env">>
MCFileOf == ("./.env" :> ".env") @@ (".env" :> ".env") @@ ("b.env" :> "b.env")
MCVarNames == <<"DB", "OWN", "PORT", "URL">>
MCPorts == ("web" :> "24920") @@ ("db" :> "21536")
\* up on a machine without the CA, share on one with it.
MCWays == {[https |-> FALSE, tunnels |-> <<>>],
           [https |-> TRUE, tunnels |-> <<"web">> :> "abc.trycloudflare.com"]}
MCUserLines == {BeginMarker, EndMarker, Blank, Other("note"),
                Assign("OWN", <<"x">>), Assign("PORT", <<"3000">>)}
=============================================================================
