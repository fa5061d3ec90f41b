------------------------------ MODULE MCRoutes ------------------------------
EXTENDS Routes

\* Settings as the host's parser leaves them: what the policy forbids is not there.
Base == [mode |-> "auto", only |-> FALSE, policy |-> FALSE, allow |-> {}, fallback |-> TRUE,
         preferred |-> NoRoute, have |-> {"cf_worker_ws"}, order |-> << >>]

MCConfigs == {
  Base,
  [Base EXCEPT !.mode = "worker_first", !.policy = TRUE, !.allow = {"direct_ws", "cf_worker_ws"}],
  [Base EXCEPT !.mode = "cf_first", !.only = TRUE, !.have = {"cf_worker_ws", "cf_proxy_ws"}],
  [Base EXCEPT !.mode = "cf_only", !.have = {"cf_proxy_ws"},
               !.order = <<"cf_proxy_ws", "awg_warp", "direct_ws">>] }

\* AWG/WARP and nothing else, or AWG/WARP before TCP.
MCAwgPolicies == {
  [enabled |-> TRUE, preferred |-> TRUE, fallback |-> FALSE],
  [enabled |-> TRUE, preferred |-> FALSE, fallback |-> TRUE] }

\* A host that wants Direct WS only, on a network whose policy allows more.
MCDirectOnly == {
  [Base EXCEPT !.mode = "direct_only", !.policy = TRUE, !.have = {"cf_proxy_ws"},
               !.allow = {"direct_ws", "cf_proxy_ws", "tcp_fallback"}] }

MCNoAwg == {[enabled |-> FALSE, preferred |-> FALSE, fallback |-> TRUE]}
=============================================================================
