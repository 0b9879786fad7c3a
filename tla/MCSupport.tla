------------------------------ MODULE MCSupport ------------------------------
(* A small instance of Support for TLC. *)
EXTENDS Support, Settings

\* The settings' defaults; bounds that leave just enough room for 1.3 times the
\* priority fee, above and below 2 gwei; and a pair that leaves too little.
GasConfigs ==
    {[min |-> 10, max |-> 1000, multiplier |-> 11],
     [min |-> 50, max |-> 65,   multiplier |-> 10],
     [min |-> 10, max |-> 26,   multiplier |-> 10],
     [min |-> 10, max |-> 15,   multiplier |-> 5]}

Offers == [max_fee : {0, 10, 25, 210}, priority_fee : {10, 20}]

\* The defaults, which have no keys; good, short, doubled and bad keys; and with a
\* good key, a queue without workers, and no provider.
WithKeys(keys) == [Default EXCEPT !.wallets.private_keys = keys]
StartConfigs ==
    {Default, WithKeys(<<"k1">>), WithKeys(<<"short">>),
     WithKeys(<<"short", "k1", "k1">>), WithKeys(<<"k1", "bad">>),
     [WithKeys(<<"k1">>) EXCEPT !.queue.worker_threads = 0],
     [WithKeys(<<"k1">>) EXCEPT !.ethereum.rpc_url = ""]}
=============================================================================
