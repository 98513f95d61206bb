------------------------------ MODULE MCShell ------------------------------
(* Shell with three pages that cycle and one that does not, and timers of a few  *)
(* ticks: an interval outlasts a slide, and the idle reset an interval.         *)
EXTENDS Shell

CONSTANTS map, weather, tide, setup

\* The weather and tide pages read the position as they render.
MCCycleOrder == <<map, weather, tide>>
MCReaders == {weather, tide}

Given == [on |-> "on", interval |-> 3, pages |-> {}, enabled |-> {map, weather, tide}, idle |-> 4]

\* As shipped, switched off, two pages, one page only, a longer interval, no idle reset.
MCChoices == {
    Given,
    [Given EXCEPT !.on = "off"],
    [Given EXCEPT !.pages = {map, tide}],
    [Given EXCEPT !.enabled = {weather}],
    [Given EXCEPT !.interval = 4],
    [Given EXCEPT !.idle = 0]}
=============================================================================
