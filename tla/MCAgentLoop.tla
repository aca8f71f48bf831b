------------------------------ MODULE MCAgentLoop ------------------------------
EXTENDS AgentLoop

CONSTANTS task1, task2, task3, todos, file

MCCalls == {task1, task2, task3, todos, file}
MCTasks == {task1, task2, task3}
MCTodos == {todos}
MCReplies == {<<>>, <<file, task1, task2>>, <<task3, todos>>}
================================================================================
