-------------------------- MODULE MCScenarioRuns --------------------------
EXTENDS ScenarioRuns

CONSTANTS h1, h2, k1, k2, own, edited, production

MCHandlers == {h1, h2}
MCWorkers == {k1, k2}
MCBodies == {own, edited, production}
MCAllowed == {own, edited}
=============================================================================
