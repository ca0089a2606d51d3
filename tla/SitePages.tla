------------------------------ MODULE SitePages ------------------------------
(***************************************************************************)
(* What nginx serves for one application: the upstream of its running      *)
(* replicas or one of the static pages, and the three pieces of state a    *)
(* configuration is generated from: the operator's mode, the transition    *)
(* page in force, and the backends.                                        *)
(***************************************************************************)
EXTENDS Naturals

CONSTANT Nobody     \* no transition

VARIABLES
    site,   \* the loaded configuration: a page, and the ports of the upstream
    flag,   \* the operator's mode: update_mode and maintenance_mode exclude each other
    trans   \* the active transition: its page and the request that set it, or Nobody

siteVars == <<site, flag, trans>>

TransitionPages == {"starting", "restart"}
Modes == {"normal", "maintenance", "update"}
StaticPages == TransitionPages \cup {"maintenance", "update"}

\* A file that answers every request with one page has no upstream.
StaticPage(page) == [page |-> page, ups |-> {}]
\* generate_config: a static page, the downtime page without backends, a proxy otherwise.
Config(mode, backends) ==
    CASE mode \in StaticPages              -> StaticPage(mode)
      [] mode = "normal" /\ backends = {}  -> StaticPage("downtime")
      [] mode = "normal" /\ backends # {}  -> [page |-> "proxy", ups |-> backends]

NoSite == [page |-> "none", ups |-> {}]

\* The page of a write that names no mode: a transition in force hides the
\* normal page, and only the normal page.
Guarded(mode, transition) ==
    IF mode = "normal" /\ transition # Nobody THEN transition.page ELSE mode

OnTransitionPage == site.page \in TransitionPages
=============================================================================
