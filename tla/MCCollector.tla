----------------------------- MODULE MCCollector -----------------------------
EXTENDS Collector

CONSTANTS s1, s2

MCChannels == {s1, s2}
MCSorters == <<s1, s2>>
MCThreads == {main, other}
\* The sorter's methods, and a service that keeps its closure, as RpcChannel
\* allows a service to.
MCServices == [Sorter |-> {"Query", "Search", "Generate"}, Echo |-> {"Later"}]
MCDatasets == {<<-4, 3>>, <<2, 3>>, << >>}
OtherCallTo(c, service, method, valid) ==
  [channel |-> c, call |-> [thread |-> other, service |-> service,
                            method |-> method, arg |-> 0, valid |-> valid]]
MCOtherCalls == {OtherCallTo(s1, "Echo", "Later", TRUE),
                 OtherCallTo(s2, "Sorter", "Query", FALSE)}
=============================================================================
