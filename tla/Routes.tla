------------------------------- MODULE Routes -------------------------------
(***************************************************************************)
(* Which part of the one server answers a path: the routes in the order    *)
(* create_app (backend/app/main.py) registers them, the MCP sub-app's OAuth*)
(* routes it publishes again at the root, and the web app's catch-all      *)
(* (backend/app/static.py).                                                *)
(*                                                                         *)
(* A path is its segments: "/mcp/" is <<"mcp", "">>.                       *)
(***************************************************************************)
EXTENDS Integers, Sequences

CONSTANTS
    ApiPaths,       \* paths of the REST API, under "api"
    Files           \* paths of the files of the frontend build

\* The first segments of the paths the application owns.
Owned == {"api", ".well-known", "mcp", "health", "docs", "redoc", "openapi.json"}

ASSUME PathsAssumption ==
    /\ \A p \in ApiPaths : p \in Seq(STRING) /\ Len(p) > 1 /\ Head(p) = "api"
    /\ \A p \in Files : p \in Seq(STRING) /\ p # <<>> /\ Head(p) \notin Owned

\* A deployment: the settings that are set, whether fastmcp is installed,
\* and whether there is a frontend build.
Settings == {"SUPABASE_URL", "CLIENT_ID", "SIGNING_KEY"}
Deployments == [settings : SUBSET Settings, fastmcp : BOOLEAN, built : BOOLEAN]

\* build_auth_provider
AuthMode(d) ==
    CASE "SUPABASE_URL" \notin d.settings -> "bare verifier"
      [] d.settings = Settings            -> "oauth proxy"
      [] OTHER                            -> "remote server"

\* The paths FastMCP gives its HTTP app in each mode.
Discovery == {<<".well-known", "oauth-protected-resource", "mcp", "">>}
ProxyPaths == {<<"authorize">>, <<"token">>, <<"register">>, <<"consent">>,
               <<"auth", "callback">>,
               <<".well-known", "oauth-authorization-server">>}

SubAppPaths(d) ==
    {<<"">>} \cup (IF AuthMode(d) = "bare verifier" THEN {} ELSE Discovery)
             \cup (IF AuthMode(d) = "oauth proxy" THEN ProxyPaths ELSE {})

\* build_mcp_app: those the parent serves again at the origin root.
RootOAuthRoutes(d) ==
    {p \in SubAppPaths(d) :
        \/ Head(p) \in {".well-known", "auth"} /\ Len(p) > 1
        \/ p \in {<<"authorize">>, <<"token">>, <<"register">>, <<"consent">>}}

-----------------------------------------------------------------------------
(* Routes, in the order create_app registers them: a set of paths, or the  *)
(* mount of everything below a prefix ("/x/..." but not "/x" itself).      *)

At(paths, to) == [paths |-> paths, prefix |-> "", to |-> to]
Mount(prefix, to) == [paths |-> {}, prefix |-> prefix, to |-> to]

Matches(route, p) ==
    \/ p \in route.paths
    \/ route.prefix # "" /\ Head(p) = route.prefix /\ Len(p) > 1
    \/ route.to = "web app"

OwnRoutes == <<At({<<"docs">>, <<"redoc">>, <<"openapi.json">>}, "docs"),
               At({<<"health">>}, "health"), At(ApiPaths, "api")>>
McpRoutes(d) ==
    IF d.fastmcp THEN <<Mount("mcp", "mcp"), At(RootOAuthRoutes(d), "oauth")>>
                 ELSE <<>>
WebRoutes(d) == IF d.built THEN <<At({}, "web app")>> ELSE <<>>

\* Slip: the web app is mounted before the connector's routes.
RouteTableWebFirst(d) == OwnRoutes \o WebRoutes(d) \o McpRoutes(d)

RouteTable(d) == OwnRoutes \o McpRoutes(d) \o WebRoutes(d)

\* NormalizeMcpPath
Normalize(p) == IF p = <<"mcp">> THEN <<"mcp", "">> ELSE p

\* _API_PREFIXES: prefixes of the text, so "mcp" covers "/mcp-tips" too.
BeginsWithMcp == {"mcp", "mcp-tips"}
OwnedByApplication(p) ==
    \/ Head(p) \in {"api", ".well-known"} /\ Len(p) > 1
    \/ Head(p) \in BeginsWithMcp \cup {"health", "docs", "redoc", "openapi.json"}

\* SinglePageApp.get_response: a file, the page, or neither.
WebApp(p) ==
    IF p \in Files THEN "file"
    ELSE IF OwnedByApplication(p) THEN "not found" ELSE "web app"

\* The sub-app mounted at /mcp is left with the rest of the path.
SubApp(d, p) ==
    IF Tail(p) \notin SubAppPaths(d) THEN "not found"
    ELSE IF Tail(p) = <<"">> THEN "mcp" ELSE "oauth"

\* Which part answers: the first route that matches.
Handler(d, path) ==
    LET p == Normalize(path)
        table == RouteTable(d)
        hits == {i \in DOMAIN table : Matches(table[i], p)}
        first == table[CHOOSE i \in hits : \A j \in hits : i <= j].to
    IN  IF hits = {} THEN "not found"
        ELSE CASE first = "web app" -> WebApp(p)
               [] first = "mcp"     -> SubApp(d, p)
               [] OTHER             -> first
=============================================================================
