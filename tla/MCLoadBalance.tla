---------------------------- MODULE MCLoadBalance ----------------------------
(* LoadBalance for TLC: three servers, the first one is asked. *)
EXTENDS LoadBalance

CONSTANTS s1, s2, s3

MCServers == <<s1, s2, s3>>
=============================================================================
