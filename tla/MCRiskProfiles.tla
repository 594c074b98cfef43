---------------------------- MODULE MCRiskProfiles ----------------------------
(* The instance of RiskProfiles for TLC: each field has its default and      *)
(* another value.                                                            *)
EXTENDS RiskProfiles

SomeChoices ==
    [market_family |-> {"btc_5m", "btc_daily_threshold"}, stale_data_seconds |-> {30, 45},
     exit_buffer_seconds |-> {5}, exit_buffer_pct_of_tte |-> {3}, max_position_usd |-> {4},
     max_concurrent_positions |-> {1, 4}]
=============================================================================
