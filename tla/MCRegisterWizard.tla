-------------------------- MODULE MCRegisterWizard --------------------------
EXTENDS RegisterWizard

MCCities ==
    [pro1 |-> [cou1 |-> {"city1"}, cou2 |-> {"city2"}],
     pro2 |-> [cou3 |-> {"city3"}]]
=============================================================================
