------------------------------- MODULE Settings -------------------------------
(***************************************************************************)
(* config/settings.rs: a configuration, its defaults and what validate     *)
(* says of it.  Only the fields that validate or the start looks at, and   *)
(* of strings only whether they are empty.                                 *)
(***************************************************************************)
EXTENDS Naturals

\* Config::default, for the fields that decide something; the multiplier in tenths,
\* prices in gwei.
Default ==
    [server |-> [port |-> 8080, max_connections |-> 1000, request_timeout |-> 30],
     database |-> [url |-> "url", max_connections |-> 20, min_connections |-> 5],
     ethereum |-> [rpc_url |-> "url", gas_price_multiplier |-> 11, min_gas_price |-> 1,
                   max_gas_price |-> 100, confirmation_blocks |-> 1],
     wallets |-> [private_keys |-> << >>, max_concurrent_transactions |-> 5],
     security |-> [signature_timeout |-> 300, nonce_window |-> 3600],
     queue |-> [max_queue_size |-> 10000, worker_threads |-> 4, batch_size |-> 10],
     log_level |-> "info"]

\* The rules of Config::validate: what breaks each.
Broken(c) ==
    [server_port                         |-> c.server.port = 0,
     server_max_connections              |-> c.server.max_connections = 0,
     server_request_timeout              |-> c.server.request_timeout = 0,
     database_url                        |-> c.database.url = "",
     database_max_connections            |-> c.database.max_connections = 0,
     database_min_connections            |->
        c.database.min_connections > c.database.max_connections,
     ethereum_rpc_url                    |-> c.ethereum.rpc_url = "",
     ethereum_gas_price_multiplier       |-> c.ethereum.gas_price_multiplier = 0,
     ethereum_gas_price                  |->
        c.ethereum.min_gas_price >= c.ethereum.max_gas_price,
     ethereum_confirmation_blocks        |-> c.ethereum.confirmation_blocks = 0,
     wallets_private_keys                |-> c.wallets.private_keys = << >>,
     wallets_max_concurrent_transactions |-> c.wallets.max_concurrent_transactions = 0,
     queue_max_queue_size                |-> c.queue.max_queue_size = 0,
     queue_worker_threads                |-> c.queue.worker_threads = 0,
     queue_batch_size                    |-> c.queue.batch_size = 0,
     security_signature_timeout          |-> c.security.signature_timeout = 0,
     security_nonce_window               |-> c.security.nonce_window = 0,
     log_level |-> c.log_level \notin {"trace", "debug", "info", "warn", "error"}]

\* Config::validate: the rules it complains of.  Nothing calls it at the start.
Validate(c) == {rule \in DOMAIN Broken(c) : Broken(c)[rule]}
=============================================================================
