------------------------------ MODULE MCSweep ------------------------------
\* The worker thread of a provider (one LLM call a sweep) and a dream's flush.
EXTENDS Sweep, TLC

CONSTANTS provider, dream, chat, mail

MCSweepers == {provider, dream}
MCRows == (provider :> 2) @@ (dream :> 3)
MCCalls == (provider :> 1) @@ (dream :> 2)
=============================================================================
