----------------------------- MODULE MCWebhook -----------------------------
(* Webhook for TLC: one target takes every event, the other takes one and  *)
(* has a malformed URL; four jobs and two workers overfill a channel of    *)
(* one.                                                                    *)
EXTENDS Webhook

CONSTANTS e1, e2, e3, t1, t2

MCTargets == <<t1, t2>>
MCWants == {<<t1, e1>>, <<t1, e2>>, <<t1, e3>>, <<t2, e1>>}
=============================================================================
