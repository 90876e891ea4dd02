SPECIFICATION DeskSpec
CONSTANTS
    Runs = {r1, r2}
    Plan = Plan
    Tasks = {1, 2, 3}
    Sessions = {1, 2}
    Concurrency = 2
    MaxVersion = 2
    Budgets <- Budget
    None = None
    a = a
    b = b
    Items = {a, b}
    Answers <- Lists
    Queries = {1, 2, 3}
    Wizards = {1, 2}
    MaxSessions = 2
    MaxBatches = 2
    Plans = {p1}
    Spares <- Spare
    Apps = {t1, t2}
    MaxSaves = 3
    Plays <- Edited
INVARIANTS OneAtATime ShownIsSelected WhatWasAsked HeldOrGone
PROPERTIES ShownInTheEnd NothingOverwritten
CHECK_DEADLOCK FALSE
