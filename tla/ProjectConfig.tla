---------------------------- MODULE ProjectConfig ----------------------------
(***************************************************************************)
(* internal/config: Load turns outport.yml and outport.local.yml into a    *)
(* config or an error, and ExpandVars computes the values of templates     *)
(* (with BuildTemplateVars of internal/allocation).                        *)
(*                                                                         *)
(* A raw service has the fields env_var, host, aliases (key -> host),      *)
(* subdomains and files; None, <<>>, FALSE and {} stand for a field that   *)
(* is left out.  A template is a sequence of parts: literal text, or       *)
(* ${var}, ${var:-body}, ${var:+body} with a template as body.             *)
(***************************************************************************)
EXTENDS Sequences, SequencesExt

CONSTANTS
  None, NoConfig,
  DefaultFile,  \* ".env"
  GoodHosts,    \* the hosts validate accepts: .test, legal characters, with the project's name
  Templates     \* every template, the bodies in templates included

ASSUME BodiesAreTemplates == \A t \in Templates : \A i \in DOMAIN t : t[i].body \in Templates

-----------------------------------------------------------------------------
(* Loading.                                                                  *)

\* mergeLocal, for one service: what the local file gives replaces the base's.
MergeService(base, local) ==
  [env_var    |-> IF local.env_var # None THEN local.env_var ELSE base.env_var,
   host       |-> IF local.host # None THEN local.host ELSE base.host,
   aliases    |-> IF local.aliases # None THEN local.aliases ELSE base.aliases,
   subdomains |-> base.subdomains \/ local.subdomains,
   files      |-> IF local.files # {} THEN local.files ELSE base.files]
LocalFits(raw, local) == DOMAIN local.services \subseteq DOMAIN raw.services
MergeLocal(raw, local) ==
  [raw EXCEPT
     !.services = [s \in DOMAIN @ |->
        IF s \in DOMAIN local.services THEN MergeService(@[s], local.services[s]) ELSE @[s]],
     !.open = IF local.open # None THEN local.open ELSE @]

Normalize(raw) ==
  [raw EXCEPT !.services = [s \in DOMAIN @ |->
     [@[s] EXCEPT !.files = IF @ = {} THEN {DefaultFile} ELSE @,
                  !.aliases = IF @ = None THEN <<>> ELSE @]]]

Parts[t \in Templates] == UNION {{t[i]} \cup Parts[t[i].body] : i \in DOMAIN t}
Standalone == {<<"instance">>, <<"project_name">>}
KnownRefs(cfg) ==
  Standalone
    \cup UNION {{<<s, f>> : f \in {"port", "hostname", "url", "env_var", "url:direct"}}
                  \cup {<<s, f, k>> : f \in {"alias", "alias_url"}, k \in DOMAIN cfg.services[s].aliases}
                : s \in DOMAIN cfg.services}
\* The references that one of the three regular expressions matches: ${service.field}, with or
\* without a modifier (but of an alias), ${service.alias.key}, and a standalone variable whatever
\* follows it.  The others load unchecked and expand to nothing.
AliasFields == {"alias", "alias_url"}
Checked(p) ==
  \/ p.op # "text" /\ Len(p.var) = 1
  \/ p.op = "sub" /\ Len(p.var) = 2 /\ p.var[2] \notin AliasFields \cup {"alias:direct", "alias_url:direct"}
  \/ p.op = "sub" /\ Len(p.var) = 3 /\ p.var[2] \in AliasFields
ValidateTemplateRefs(cfg, template) ==
  \A p \in Parts[template] : Checked(p) => p.var \in KnownRefs(cfg)

\* validate, one operator per rule.  dv.files: file -> its own template, <<>> without one.
EnvVarsGiven(cfg) == \A s \in DOMAIN cfg.services : cfg.services[s].env_var # None
EnvVarsUnique(cfg) ==
  \A s, u \in DOMAIN cfg.services :
    s # u /\ cfg.services[s].env_var = cfg.services[u].env_var
      => cfg.services[s].files \cap cfg.services[u].files = {}
AliasHosts(cfg) ==
  UNION {{<<s, k>> : k \in DOMAIN cfg.services[s].aliases} : s \in DOMAIN cfg.services}
AliasesUnique(cfg) ==
  LET Host(a) == cfg.services[a[1]].aliases[a[2]] IN
  \A a \in AliasHosts(cfg) :
    /\ \A s \in DOMAIN cfg.services : Host(a) # cfg.services[s].host
    /\ \A b \in AliasHosts(cfg) \ {a} : Host(a) # Host(b)
HostsValid(cfg) ==
  \A s \in DOMAIN cfg.services :
    LET svc == cfg.services[s] IN
    /\ svc.host \in GoodHosts \cup {None}
    /\ svc.host = None => DOMAIN svc.aliases = {} /\ ~svc.subdomains
    /\ \A k \in DOMAIN svc.aliases : svc.aliases[k] \in GoodHosts
NoClash(cfg, name) == \A s \in DOMAIN cfg.services : cfg.services[s].env_var # name
ComputedValid(cfg) ==
  \A name \in DOMAIN cfg.computed :
    LET dv == cfg.computed[name] IN
    /\ DOMAIN dv.files # {}
    /\ \A f \in DOMAIN dv.files : dv.files[f] # <<>> \/ dv.value # <<>>
    /\ NoClash(cfg, name)
    /\ ValidateTemplateRefs(cfg, dv.value)
    /\ \A f \in DOMAIN dv.files : ValidateTemplateRefs(cfg, dv.files[f])
OpenValid(cfg) ==
  cfg.open # None =>
    /\ IsInjective(cfg.open)
    /\ \A i \in DOMAIN cfg.open :
         cfg.open[i] \in DOMAIN cfg.services /\ cfg.services[cfg.open[i]].host # None
Validate(cfg) ==
  /\ EnvVarsGiven(cfg) /\ EnvVarsUnique(cfg) /\ AliasesUnique(cfg) /\ HostsValid(cfg)
  /\ ComputedValid(cfg) /\ OpenValid(cfg)

LoadChecksBase(raw, local) ==  \* for the mutant: validation before the merge
  LET merged == IF local = None THEN raw ELSE MergeLocal(raw, local) IN
  IF /\ local # None => LocalFits(raw, local)
     /\ DOMAIN raw.services # {}
     /\ Validate(Normalize(raw))
  THEN Normalize(merged) ELSE NoConfig
Load(raw, local) ==
  LET merged == IF local = None THEN raw ELSE MergeLocal(raw, local) IN
  IF /\ local # None => LocalFits(raw, local)
     /\ DOMAIN raw.services # {}
     /\ Validate(Normalize(merged))
  THEN Normalize(merged) ELSE NoConfig

-----------------------------------------------------------------------------
(* Templates.  A value is a sequence of pieces; the empty one is "".         *)

EffectiveScheme(https) == IF https THEN "https" ELSE "http"

\* BuildTemplateVars of the main instance, whose host names are the config's.
TemplateVars(cfg, ports, https, tunnels) ==
  LET Svc(s) == cfg.services[s]
      Url(label, host) == IF label \in DOMAIN tunnels THEN <<tunnels[label]>>
                          ELSE <<EffectiveScheme(https), host>>
      Known == UNION {
        {<<s, f>> : f \in {"port", "hostname", "env_var"}}
          \cup (IF Svc(s).host # None THEN {<<s, "url">>, <<s, "url:direct">>} ELSE {})
          \cup {<<s, f, k>> : f \in {"alias", "alias_url"}, k \in DOMAIN Svc(s).aliases}
        : s \in DOMAIN cfg.services}
      Value(r) ==
        CASE r[2] = "port" -> <<ports[r[1]]>>
          [] r[2] = "env_var" -> <<Svc(r[1]).env_var>>
          [] r[2] = "hostname" -> <<IF Svc(r[1]).host = None THEN "localhost" ELSE Svc(r[1]).host>>
          [] r[2] = "url" -> Url(<<r[1]>>, Svc(r[1]).host)
          [] r[2] = "url:direct" -> <<"http", "localhost", ports[r[1]]>>
          [] r[2] = "alias" -> <<Svc(r[1]).aliases[r[3]]>>
          [] r[2] = "alias_url" -> Url(<<r[1], r[3]>>, Svc(r[1]).aliases[r[3]])
  IN  [r \in Known \cup Standalone |->
         IF r = <<"instance">> THEN <<>> ELSE IF r = <<"project_name">> THEN <<cfg.name>> ELSE Value(r)]

\* ExpandVars, expandExpr and extractBody.
ExpandVars(template, vars) ==
  LET Expand[t \in Templates] ==
        FlattenSeq([i \in DOMAIN t |->
          LET p   == t[i]
              val == IF p.var \in DOMAIN vars THEN vars[p.var] ELSE <<>>
          IN  CASE p.op = "text"    -> <<p.var>>
                [] p.op = "sub"     -> val
                [] p.op = "default" -> IF val # <<>> THEN val ELSE Expand[p.body]
                [] p.op = "alt"     -> IF val # <<>> THEN Expand[p.body] ELSE <<>>])
  IN  Expand[template]

Template(dv, file) == IF dv.files[file] # <<>> THEN dv.files[file] ELSE dv.value
ResolveComputed(cfg, vars) ==
  [name \in DOMAIN cfg.computed |->
     [f \in DOMAIN cfg.computed[name].files |-> ExpandVars(Template(cfg.computed[name], f), vars)]]
=============================================================================
